---- MODULE Spec2Model ----
(***************************************************************************)
(* e6_dl: the pool download orchestrator (backend/backend.py), its ledger  *)
(* (backend/database.py), the file writer (backend/downloader.py) and the  *)
(* rate limiter, as a state machine.                                       *)
(*                                                                         *)
(* Six specifications share the variables:                                 *)
(*   Spec      the command-line runs (process_pool_ids, update_all_pools,  *)
(*             check_pool_for_updates) over the remote, the ledger and the *)
(*             filesystem, with out-of-band changes of remote and files;   *)
(*   SpecRate  rate_limited_request under a clock, with the two downloader *)
(*             instances of an update run;                                 *)
(*   SpecAttr  the attribution expression of download_pool over all artist *)
(*             lists of a bounded length;                                  *)
(*   SpecPath  a path stored in the ledger and read back;                  *)
(*   SpecCli   cli_entry.cli() from the arguments to the exit status;      *)
(*   SpecLive  process_pool_ids over a remote that answers every call,     *)
(*             with weak fairness of the program's steps.                  *)
(***************************************************************************)
EXTENDS Integers, Sequences, FiniteSets, TLC

\* ------------------------------------------------------------------ bounds
MaxRuns == 2          \* command-line runs in one behaviour
MaxEnv == 1           \* out-of-band changes (remote edits, file deletions)
MaxTime == 7          \* SpecRate: the clock stops here
MaxArtists == 3       \* SpecAttr: the longest artist list
MaxPath == 3          \* SpecPath: components of a path below the working directory

\* --------------------------------------------------------- program constants
RATE_LIMIT == 2

Sentinel == "conditional_dnp"
Placeholder == "Unknown Artist"

\* ------------------------------------------------------------ the universe
Pools == {1, 2}
Posts == {1, 2, 3}

\* The item lists the remote may serve for a pool (pool 1 loses its first
\* item, which moves the second one up, or is emptied; pool 2 grows, and
\* shares post 1 with pool 1).
RemoteLists(c) ==
    IF c = 1 THEN {<<1, 2>>, <<2>>, <<>>}
             ELSE {<<1>>, <<1, 3>>}

InitialList(c) == IF c = 1 THEN <<1, 2>> ELSE <<1>>

RemoteName(c) == IF c = 1 THEN "poolA" ELSE "poolB"

\* tags.artist of each post document
PostArtists(p) ==
    IF p = 1 THEN <<Sentinel, "artistA">>
    ELSE IF p = 2 THEN <<"soloArtist">>
    ELSE <<>>

\* pool_ids arguments of process_pool_ids
PoolIdLists == {<<1>>, <<2>>, <<1, 2>>}

\* Python's None
None == [none |-> TRUE]

\* ------------------------------------------------------------------ helpers
Range(s) == {s[n] : n \in 1..Len(s)}

\* a position that is 0 whatever the list
IndexAlwaysFirst(s, x) == 0

\* list.index(x): the first position of x, 0-based
IndexOf(s, x) == (CHOOSE n \in 1..Len(s) : s[n] = x /\ \A m \in 1..(n - 1) : s[m] # x) - 1

\* every order in which list(set) may enumerate S
Perms(S) == {s \in [1..Cardinality(S) -> S] : \A a, b \in 1..Cardinality(S) : a # b => s[a] # s[b]}

RECURSIVE SortedSeq(_)
SortedSeq(S) ==
    IF S = {} THEN <<>>
    ELSE LET m == CHOOSE x \in S : \A y \in S : x <= y
         IN <<m>> \o SortedSeq(S \ {m})

\* ------------------------------------------------------------------- paths
\* A path is a sequence of components; an absolute path starts with "/".
Cwd == <<"/", "cwd">>
BaseDownloadDir == <<".">>

IsAbsolute(p) == Len(p) > 0 /\ p[1] = "/"

DropDots(p) == SelectSeq(p, LAMBDA x : x # ".")

\* Path.resolve() on a path whose first component is the root: "." is dropped,
\* ".." drops the component before it (the root stays)
RECURSIVE Collapse(_, _)
Collapse(done, rest) ==
    IF rest = <<>> THEN done
    ELSE IF Head(rest) = "." THEN Collapse(done, Tail(rest))
    ELSE IF Head(rest) = ".."
         THEN Collapse(IF Len(done) > 1 THEN SubSeq(done, 1, Len(done) - 1) ELSE done,
                       Tail(rest))
    ELSE Collapse(Append(done, Head(rest)), Tail(rest))

\* Path.resolve(): absolute, without "." and ".." components
Resolve(p) == IF IsAbsolute(p) THEN Collapse(<<>>, p) ELSE Collapse(<<>>, Cwd \o p)

StartsWith(p, q) == Len(q) <= Len(p) /\ SubSeq(p, 1, Len(q)) = q

\* str.startswith between two names of the model
NameStartsWith(a, b) == a = b \/ <<a, b>> \in {<<"dl2", "dl">>}

\* str(p).startswith(str(q)) for resolved paths: q's last name may be the
\* beginning of a longer name of p
StringStartsWith(p, q) ==
    /\ Len(q) <= Len(p)
    /\ Len(q) > 0
    /\ SubSeq(p, 1, Len(q) - 1) = SubSeq(q, 1, Len(q) - 1)
    /\ NameStartsWith(p[Len(q)], q[Len(q)])

\* DownloadDatabase._to_relative_path of an instance built over base; a
\* ValueError of relative_to falls back to the path as given
ToRelativePathFrom(base, absolute_path) ==
    LET abs_path == Resolve(absolute_path)
        base_path == Resolve(base)
    IN IF StringStartsWith(abs_path, base_path)
       THEN IF StartsWith(abs_path, base_path)
            THEN SubSeq(abs_path, Len(base_path) + 1, Len(abs_path))
            ELSE absolute_path
       ELSE abs_path

\* _to_absolute_path that resolves a relative path against the working directory
ToAbsolutePathFromCwd(base, stored_path) ==
    IF IsAbsolute(stored_path) THEN DropDots(stored_path)
    ELSE Resolve(stored_path)

\* DownloadDatabase._to_absolute_path of an instance built over base
\* (Path(stored_path) drops the "." components of an absolute path)
ToAbsolutePathFrom(base, stored_path) ==
    IF IsAbsolute(stored_path) THEN DropDots(stored_path)
    ELSE Resolve(base \o stored_path)

\* DownloadDatabase._to_relative_path
ToRelativePath(absolute_path) == ToRelativePathFrom(BaseDownloadDir, absolute_path)

\* DownloadDatabase._to_absolute_path
ToAbsolutePath(stored_path) == ToAbsolutePathFrom(BaseDownloadDir, stored_path)

\* os.path.join(directory, filename)
Join(directory, filename) == directory \o <<filename>>

\* f"{index + 1}.{post.file_ext}"
FileName(index, ext) == ToString(index + 1) \o "." \o ext

\* utils.create_directory: the path it returns (names of the model hold no
\* forbidden character, so sanitize_filename leaves them as they are)
DirectoryPath(pool_name, artist) ==
    DropDots(BaseDownloadDir \o <<pool_name \o " by " \o artist>>)

\* utils.create_internet_shortcut(url, directory, name) with name = directory
ShortcutPath(directory) == Resolve(directory) \o <<"shortcut.url">>

\* ----------------------------------------------------------------- ledger
\* pools: rows [id, name, artist, folder_path, post_count, last_updated]
\* downloaded_posts: rows [post_id, pool_id, file_path, position, downloaded_at]

\* DownloadDatabase.get_pool_info
GetPoolInfo(pools_tbl, pool_id) ==
    LET rows == {r \in pools_tbl : r.id = pool_id}
    IN IF rows = {} THEN None
       ELSE LET row == CHOOSE r \in rows : TRUE
            IN [row EXCEPT !.folder_path = ToAbsolutePath(@)]

\* INSERT OR REPLACE INTO pools: a plain INSERT keeps the old row
SavePoolNoReplace(pools_tbl, pool_id, name, artist, folder_path, post_count, now) ==
    pools_tbl \cup {[id |-> pool_id, name |-> name, artist |-> artist,
                     folder_path |-> ToRelativePath(folder_path),
                     post_count |-> post_count, last_updated |-> now]}

\* a save_pool that writes no row
SavePoolSkipped(pools_tbl, pool_id, name, artist, folder_path, post_count, now) ==
    pools_tbl

\* DownloadDatabase.save_pool
SavePool(pools_tbl, pool_id, name, artist, folder_path, post_count, now) ==
    {r \in pools_tbl : r.id # pool_id}
        \cup {[id |-> pool_id, name |-> name, artist |-> artist,
               folder_path |-> ToRelativePath(folder_path),
               post_count |-> post_count, last_updated |-> now]}

\* get_downloaded_posts without the WHERE pool_id = ? filter
GetDownloadedPostsAnyPool(posts_tbl, pool_id) ==
    {r.post_id : r \in posts_tbl}

\* DownloadDatabase.get_downloaded_posts
GetDownloadedPosts(posts_tbl, pool_id) ==
    {r.post_id : r \in {q \in posts_tbl : q.pool_id = pool_id}}

\* INSERT instead of INSERT OR REPLACE: the row of the same key stays
MarkPostDownloadedNoReplace(posts_tbl, post_id, pool_id, file_path, position, now) ==
    posts_tbl \cup {[post_id |-> post_id, pool_id |-> pool_id,
                     file_path |-> ToRelativePath(file_path),
                     position |-> position, downloaded_at |-> now]}

\* DownloadDatabase.mark_post_downloaded
MarkPostDownloaded(posts_tbl, post_id, pool_id, file_path, position, now) ==
    {r \in posts_tbl : ~(r.post_id = post_id /\ r.pool_id = pool_id)}
        \cup {[post_id |-> post_id, pool_id |-> pool_id,
               file_path |-> ToRelativePath(file_path),
               position |-> position, downloaded_at |-> now]}

\* get_missing_posts that reports every listed post
GetMissingPostsAll(posts_tbl, pool_id, all_post_ids) ==
    Range(all_post_ids)

\* DownloadDatabase.get_missing_posts: the set; callers take list(set)
GetMissingPosts(posts_tbl, pool_id, all_post_ids) ==
    Range(all_post_ids) \ GetDownloadedPosts(posts_tbl, pool_id)

\* verify_downloaded_files that reports the missing rows and keeps them
VerifyDownloadedFilesNoDelete(posts_tbl, pools_tbl, pool_id, fs) ==
    LET records == {r \in posts_tbl : r.pool_id = pool_id}
        gone == {r \in records : ToAbsolutePath(r.file_path) \notin fs}
    IN IF GetPoolInfo(pools_tbl, pool_id) = None
       THEN [rows |-> posts_tbl, missing_files |-> <<>>]
       ELSE [rows |-> posts_tbl,
             missing_files |-> SortedSeq({r.post_id : r \in gone})]

\* verify_downloaded_files whose DELETE drops the rows of every pool whose
\* file is gone
VerifyDownloadedFilesAnyPool(posts_tbl, pools_tbl, pool_id, fs) ==
    LET records == {r \in posts_tbl : r.pool_id = pool_id}
        gone == {r \in records : ToAbsolutePath(r.file_path) \notin fs}
    IN IF GetPoolInfo(pools_tbl, pool_id) = None
       THEN [rows |-> posts_tbl, missing_files |-> <<>>]
       ELSE [rows |-> {r \in posts_tbl : ToAbsolutePath(r.file_path) \in fs},
             missing_files |-> SortedSeq({r.post_id : r \in gone})]

\* verify_downloaded_files that returns the id of every row it looked at
VerifyDownloadedFilesReportsAll(posts_tbl, pools_tbl, pool_id, fs) ==
    LET records == {r \in posts_tbl : r.pool_id = pool_id}
        gone == {r \in records : ToAbsolutePath(r.file_path) \notin fs}
    IN IF GetPoolInfo(pools_tbl, pool_id) = None
       THEN [rows |-> posts_tbl, missing_files |-> <<>>]
       ELSE [rows |-> {r \in posts_tbl :
                         ~(r.pool_id = pool_id /\ r.post_id \in {g.post_id : g \in gone})},
             missing_files |-> SortedSeq({r.post_id : r \in records})]

\* DownloadDatabase.verify_downloaded_files: the table after it and the list
\* it returns (the orphaned-file scan only logs)
VerifyDownloadedFiles(posts_tbl, pools_tbl, pool_id, fs) ==
    LET records == {r \in posts_tbl : r.pool_id = pool_id}
        gone == {r \in records : ToAbsolutePath(r.file_path) \notin fs}
    IN IF GetPoolInfo(pools_tbl, pool_id) = None
       THEN [rows |-> posts_tbl, missing_files |-> <<>>]
       ELSE [rows |-> {r \in posts_tbl :
                         ~(r.pool_id = pool_id /\ r.post_id \in {g.post_id : g \in gone})},
             missing_files |-> SortedSeq({r.post_id : r \in gone})]

\* ------------------------------------------------------------ attribution
\* backend.py line 79 with the two-entry test dropped
AttributionNoLengthTest(artists) ==
    IF Len(artists) > 0 /\ artists[1] = Sentinel
    THEN IF Len(artists) > 1 THEN artists[2] ELSE artists[1]
    ELSE IF Len(artists) > 0 THEN artists[1] ELSE Placeholder

\* an attribution that takes the first entry whatever it is
AttributionFirstEntry(artists) ==
    IF Len(artists) > 0 THEN artists[1] ELSE Placeholder

\* backend.py line 79
Attribution(artists) ==
    IF Len(artists) > 0 /\ artists[1] = Sentinel /\ Len(artists) > 1
    THEN artists[2]
    ELSE IF Len(artists) > 0 THEN artists[1] ELSE Placeholder


\* ------------------------------------------------------------------- state
VARIABLES
    remote,             \* remote[c]: post_ids the API serves for pool c
    files,              \* absolute paths of the files on disk
    dirs,               \* absolute paths of the directories on disk
    pools,              \* table pools
    downloaded_posts,   \* table downloaded_posts
    run,                \* command-line runs started (CURRENT_TIMESTAMP)
    env,                \* out-of-band changes made so far
    pc,                 \* where the running coroutine is suspended
    pool_ids,           \* process_pool_ids: its argument
    skip_existing,      \* process_pool_ids: its argument
    i,                  \* process_pool_ids: loop index (1-based)
    batch_pool,         \* process_pool_ids: pool
    missing_posts,      \* process_pool_ids: missing_posts (as a set)
    success,            \* process_pool_ids: success
    failed,             \* process_pool_ids: failed
    all_failed,         \* process_pool_ids: all_failed
    pool,               \* download_pool: pool
    existing_pool,      \* download_pool: existing_pool
    artist,             \* download_pool: artist ("" outside download_pool)
    working_dir,        \* download_pool: working_dir (<<>> outside download_pool)
    missing_files,      \* download_pool: missing_files
    posts_to_download,  \* download_pool: posts_to_download
    k,                  \* download_pool: index into posts_to_download
    post,               \* download_post: post
    all_pools,          \* update_all_pools: all_pools (ids, in query order)
    j,                  \* update_all_pools: index into all_pools
    pools_with_updates, \* update_all_pools: pools_with_updates
    check_id,           \* check_pool_for_updates: pool_id
    update_info,        \* check_pool_for_updates: the value returned last
    ledger0,            \* history: the ledger when process_pool_ids was entered
    fetched_post,       \* history: fetch_post was called in this process_pool_ids
    second,             \* history: this call repeats the call before it, the remote unchanged
    speculative,        \* history: keys of the rows written with no completed file write
    limiter,            \* SpecRate: the rate limiter and its callers
    attr,               \* SpecAttr: an artist list and its attribution
    conv,               \* SpecPath: a path, what the ledger stores for it and reads back
    cli                 \* SpecCli: the command line, main()'s position and the exit status

remoteVars == <<remote>>
fsVars == <<files, dirs>>
ledgerVars == <<pools, downloaded_posts>>
batchVars == <<pool_ids, skip_existing, i, batch_pool, missing_posts, success, failed, all_failed>>
poolVars == <<pool, existing_pool, artist, working_dir, missing_files, posts_to_download, k, post>>
updateVars == <<all_pools, j, pools_with_updates>>
checkVars == <<check_id, update_info>>
histVars == <<ledger0, fetched_post, second, speculative>>
flowVars == <<remoteVars, fsVars, ledgerVars, run, env, pc, batchVars, poolVars,
              updateVars, checkVars, histVars>>
vars == <<flowVars, limiter, attr, conv, cli>>

\* models.Pool built from the document the API serves
Pool(c) == [id |-> c, name |-> RemoteName(c), post_ids |-> remote[c],
            post_count |-> Len(remote[c])]

\* the flags of a post document that download_image reads
PostFlags == {"ok", "deleted", "nourl"}

\* models.Post built from a post document
Post(p, flag) == [id |-> p, artists |-> PostArtists(p), file_ext |-> "jpg",
                  is_deleted |-> (flag = "deleted"),
                  file_url |-> IF flag = "nourl" THEN None ELSE [url |-> "payload"]]

NoFailures == [c \in {} |-> <<>>]

FlowInit ==
    /\ remote = [c \in Pools |-> InitialList(c)]
    /\ files = {}
    /\ dirs = {}
    /\ pools = {}
    /\ downloaded_posts = {}
    /\ run = 0
    /\ env = 0
    /\ pc = "idle"
    /\ pool_ids = <<>>
    /\ skip_existing = TRUE
    /\ i = 1
    /\ batch_pool = None
    /\ missing_posts = {}
    /\ success = <<>>
    /\ failed = <<>>
    /\ all_failed = NoFailures
    /\ pool = None
    /\ existing_pool = None
    /\ artist = ""
    /\ working_dir = <<>>
    /\ missing_files = <<>>
    /\ posts_to_download = <<>>
    /\ k = 1
    /\ post = None
    /\ all_pools = <<>>
    /\ j = 1
    /\ pools_with_updates = <<>>
    /\ check_id = None
    /\ update_info = None
    /\ ledger0 = [pools |-> {}, posts |-> {}]
    /\ fetched_post = FALSE
    /\ second = FALSE
    /\ speculative = {}


\* --------------------------------------------------- process_pool_ids: loop
\* A call's locals are dropped when it returns: the state between two runs is
\* the remote, the disk and the ledger.
ResetPoolLocals ==
    /\ pool' = None
    /\ existing_pool' = None
    /\ artist' = ""
    /\ working_dir' = <<>>
    /\ missing_files' = <<>>
    /\ posts_to_download' = <<>>
    /\ k' = 1
    /\ post' = None

ResetBatchLocals ==
    /\ pool_ids' = <<>>
    /\ skip_existing' = TRUE
    /\ i' = 1
    /\ batch_pool' = None
    /\ missing_posts' = {}
    /\ success' = <<>>
    /\ failed' = <<>>
    /\ all_failed' = NoFailures
    /\ ledger0' = [pools |-> {}, posts |-> {}]
    /\ fetched_post' = FALSE

ResetUpdateLocals ==
    /\ all_pools' = <<>>
    /\ j' = 1
    /\ pools_with_updates' = <<>>

ResetCheckLocals ==
    /\ check_id' = None
    /\ update_info' = None

\* the for loop of process_pool_ids moves to the next pool_id, or the
\* function returns all_failed
NextPoolId ==
    IF i < Len(pool_ids)
    THEN /\ i' = i + 1
         /\ pc' = "ppi_fetch_pool"
    ELSE /\ i' = i
         /\ pc' = "ppi_return"

\* process_pool_ids that files the failed list of every pool, empty or not
EndPoolAlwaysRecords(success_now, failed_now) ==
    /\ success' = success_now
    /\ failed' = failed_now
    /\ all_failed' = [c \in DOMAIN all_failed \cup {pool_ids[i]} |->
                        IF c = pool_ids[i] THEN failed_now ELSE all_failed[c]]
    /\ ResetPoolLocals
    /\ NextPoolId

\* backend.py 250-256: download_pool is exhausted with these lists
EndPool(success_now, failed_now) ==
    /\ success' = success_now
    /\ failed' = failed_now
    /\ all_failed' = IF failed_now # <<>>
                     THEN [c \in DOMAIN all_failed \cup {pool_ids[i]} |->
                             IF c = pool_ids[i] THEN failed_now ELSE all_failed[c]]
                     ELSE all_failed
    /\ ResetPoolLocals
    /\ NextPoolId

\* process_pool_ids is entered (backend.py 207-215)
EnterProcessPoolIds(ids, skip) ==
    /\ pool_ids' = ids
    /\ skip_existing' = skip
    /\ i' = 1
    /\ batch_pool' = None
    /\ missing_posts' = {}
    /\ success' = <<>>
    /\ failed' = <<>>
    /\ all_failed' = NoFailures
    /\ pc' = "ppi_fetch_pool"
    /\ ledger0' = [pools |-> pools, posts |-> downloaded_posts]
    /\ fetched_post' = FALSE

\* cli_entry.main with pool ids: process_pool_ids(pool_ids, skip_existing)
StartProcess(ids, skip) ==
    /\ pc = "idle"
    /\ run < MaxRuns
    /\ run' = run + 1
    /\ EnterProcessPoolIds(ids, skip)
    /\ second' = FALSE
    /\ UNCHANGED <<remoteVars, fsVars, ledgerVars, env, poolVars, updateVars,
                   checkVars, speculative, limiter, attr, conv, cli>>

\* the same command line is run again after process_pool_ids returned, with
\* skip_existing; second holds until something edits the remote
RunAgain ==
    /\ pc = "ppi_return"
    /\ skip_existing
    /\ run < MaxRuns
    /\ run' = run + 1
    /\ EnterProcessPoolIds(pool_ids, TRUE)
    /\ second' = TRUE
    /\ ResetUpdateLocals
    /\ UNCHANGED <<remoteVars, fsVars, ledgerVars, env, poolVars, checkVars,
                   speculative, limiter, attr, conv, cli>>

\* backend.py 258 and cli_entry.py 49-53: all_failed is returned, the run ends
ProcessReturn ==
    /\ pc = "ppi_return"
    /\ pc' = "idle"
    /\ second' = FALSE
    /\ ResetBatchLocals
    /\ ResetUpdateLocals
    /\ UNCHANGED <<remoteVars, fsVars, ledgerVars, run, env, poolVars, checkVars,
                   speculative, limiter, attr, conv, cli>>

\* backend.py 221-224: fetch_pool answers absent
BatchFetchPoolAbsent ==
    /\ pc = "ppi_fetch_pool"
    /\ NextPoolId
    /\ UNCHANGED <<remoteVars, fsVars, ledgerVars, run, env, pool_ids, skip_existing,
                   batch_pool, missing_posts, success, failed, all_failed, poolVars,
                   updateVars, checkVars, histVars, limiter, attr, conv, cli>>

\* a process_pool_ids that looks for missing posts whatever skip_existing is
BatchFetchPoolAlwaysChecks ==
    /\ pc = "ppi_fetch_pool"
    /\ LET pool_id == pool_ids[i]
           fetched == Pool(pool_id)
           missing == GetMissingPosts(downloaded_posts, pool_id, fetched.post_ids)
       IN /\ batch_pool' = fetched
          /\ success' = <<>>
          /\ failed' = <<>>
          /\ missing_posts' = missing
          /\ pc' = IF Cardinality(missing) = 0 THEN "ppi_complete" ELSE "dp_fetch_pool"
    /\ UNCHANGED <<remoteVars, fsVars, ledgerVars, run, env, pool_ids, skip_existing, i,
                   all_failed, poolVars, updateVars, checkVars, histVars, limiter, attr, conv, cli>>

\* backend.py 221-240: fetch_pool answers the pool document
BatchFetchPool ==
    /\ pc = "ppi_fetch_pool"
    /\ LET pool_id == pool_ids[i]
           fetched == Pool(pool_id)
           missing == GetMissingPosts(downloaded_posts, pool_id, fetched.post_ids)
       IN /\ batch_pool' = fetched
          /\ success' = <<>>
          /\ failed' = <<>>
          /\ missing_posts' = IF skip_existing THEN missing ELSE {}
          /\ pc' = IF skip_existing /\ Cardinality(missing) = 0
                   THEN "ppi_complete" ELSE "dp_fetch_pool"
    /\ UNCHANGED <<remoteVars, fsVars, ledgerVars, run, env, pool_ids, skip_existing, i,
                   all_failed, poolVars, updateVars, checkVars, histVars, limiter, attr, conv, cli>>

\* backend.py 235-238: "already complete", continue
BatchComplete ==
    /\ pc = "ppi_complete"
    /\ NextPoolId
    /\ UNCHANGED <<remoteVars, fsVars, ledgerVars, run, env, pool_ids, skip_existing,
                   batch_pool, missing_posts, success, failed, all_failed, poolVars,
                   updateVars, checkVars, histVars, limiter, attr, conv, cli>>

\* ------------------------------------------------------------ download_pool
\* backend.py 56-59: fetch_pool answers absent; the generator ends
DownloadFetchPoolAbsent ==
    /\ pc = "dp_fetch_pool"
    /\ EndPool(success, failed)
    /\ UNCHANGED <<remoteVars, fsVars, ledgerVars, run, env, pool_ids, skip_existing,
                   batch_pool, missing_posts, updateVars, checkVars, histVars,
                   limiter, attr, conv, cli>>

\* backend.py 56-70: fetch_pool answers the document; no posts ends the generator
DownloadFetchPool ==
    /\ pc = "dp_fetch_pool"
    /\ LET fetched == Pool(pool_ids[i])
       IN IF Len(fetched.post_ids) = 0
          THEN EndPool(success, failed)
          ELSE /\ pool' = fetched
               /\ existing_pool' = GetPoolInfo(pools, pool_ids[i])
               /\ pc' = "dp_first_post"
               /\ UNCHANGED <<artist, working_dir, missing_files, posts_to_download, k,
                              post, success, failed, all_failed, i>>
    /\ UNCHANGED <<remoteVars, fsVars, ledgerVars, run, env, pool_ids, skip_existing,
                   batch_pool, missing_posts, updateVars, checkVars, histVars,
                   limiter, attr, conv, cli>>

\* a download_pool that yields the unreachable first post as a failed item
DownloadFirstPostAbsentYields ==
    /\ pc = "dp_first_post"
    /\ fetched_post' = TRUE
    /\ EndPool(success, Append(failed, pool.post_ids[1]))
    /\ UNCHANGED <<remoteVars, fsVars, ledgerVars, run, env, pool_ids, skip_existing,
                   batch_pool, missing_posts, updateVars, checkVars, ledger0, second, speculative, limiter, attr, conv, cli>>

\* backend.py 74-77: the first post is absent; the generator ends
DownloadFirstPostAbsent ==
    /\ pc = "dp_first_post"
    /\ fetched_post' = TRUE
    /\ EndPool(success, failed)
    /\ UNCHANGED <<remoteVars, fsVars, ledgerVars, run, env, pool_ids, skip_existing,
                   batch_pool, missing_posts, updateVars, checkVars, ledger0, second, speculative, limiter, attr, conv, cli>>

\* a reuse decided on the record alone, the disk not looked at
ReuseDirectoryByRecord(existing, on_disk) == existing # None

\* backend.py 83: the recorded directory is used again
ReuseDirectory(existing, on_disk) ==
    existing # None /\ Resolve(existing.folder_path) \in on_disk

\* backend.py 74-123: attribution, directory, save_pool, and the work set
DownloadFirstPost ==
    /\ pc = "dp_first_post"
    /\ fetched_post' = TRUE
    /\ LET pool_id == pool_ids[i]
           first_post == Post(pool.post_ids[1], "ok")
           artist_now == Attribution(first_post.artists)
           reuse == ReuseDirectory(existing_pool, dirs)
           wd == IF reuse THEN existing_pool.folder_path
                 ELSE DirectoryPath(pool.name, artist_now)
           files_now == IF reuse THEN files ELSE files \cup {ShortcutPath(wd)}
           pools_now == SavePool(pools, pool_id, pool.name, artist_now, wd,
                                 pool.post_count, run)
           verified == VerifyDownloadedFiles(downloaded_posts, pools_now, pool_id, files_now)
           missing == GetMissingPosts(verified.rows, pool_id, pool.post_ids)
       IN /\ artist' = artist_now
          /\ working_dir' = wd
          /\ dirs' = IF reuse THEN dirs ELSE dirs \cup {Resolve(wd)}
          /\ files' = files_now
          /\ pools' = pools_now
          /\ IF skip_existing
             THEN /\ downloaded_posts' = verified.rows
                  /\ missing_files' = verified.missing_files
                  /\ speculative' = {key \in speculative :
                                       \E r \in verified.rows :
                                          <<r.post_id, r.pool_id>> = key}
                  /\ IF missing = {}
                     THEN /\ posts_to_download' = <<>>
                          /\ pc' = "dp_complete"
                     ELSE /\ \E order \in Perms(missing) : posts_to_download' = order
                          /\ pc' = "dp_fetch_post"
             ELSE /\ downloaded_posts' = downloaded_posts
                  /\ missing_files' = <<>>
                  /\ speculative' = speculative
                  /\ posts_to_download' = pool.post_ids
                  /\ pc' = "dp_fetch_post"
    /\ k' = 1
    /\ UNCHANGED <<remoteVars, run, env, batchVars, pool, existing_pool, post,
                   updateVars, checkVars, ledger0, second, limiter, attr, conv, cli>>

\* backend.py 113-115: "already fully downloaded"; the generator ends
DownloadComplete ==
    /\ pc = "dp_complete"
    /\ EndPool(success, failed)
    /\ UNCHANGED <<remoteVars, fsVars, ledgerVars, run, env, pool_ids, skip_existing,
                   batch_pool, missing_posts, updateVars, checkVars, histVars,
                   limiter, attr, conv, cli>>

\* a loop that leaves the pool after the first result, whatever is planned
AdvanceLeavesPool(success_now, failed_now) == EndPool(success_now, failed_now)

\* a loop that drops the result of the post it just handled
AdvanceDropsResult(success_now, failed_now) ==
    IF k < Len(posts_to_download)
    THEN /\ k' = k + 1
         /\ pc' = "dp_fetch_post"
         /\ success' = success
         /\ failed' = failed
         /\ UNCHANGED <<pool, existing_pool, artist, working_dir, missing_files,
                        posts_to_download, post, all_failed, i>>
    ELSE EndPool(success, failed)

\* backend.py 130-136, 244-248: one result is yielded; the loop goes on or ends
Advance(success_now, failed_now) ==
    IF k < Len(posts_to_download)
    THEN /\ k' = k + 1
         /\ pc' = "dp_fetch_post"
         /\ success' = success_now
         /\ failed' = failed_now
         /\ UNCHANGED <<pool, existing_pool, artist, working_dir, missing_files,
                        posts_to_download, post, all_failed, i>>
    ELSE EndPool(success_now, failed_now)

\* backend.py 140-141, 152-153: fetch_post answers absent: outcome failed
DownloadPostAbsent ==
    /\ pc = "dp_fetch_post"
    /\ fetched_post' = TRUE
    /\ Advance(success, Append(failed, posts_to_download[k]))
    /\ UNCHANGED <<remoteVars, fsVars, ledgerVars, run, env, pool_ids, skip_existing,
                   batch_pool, missing_posts, updateVars, checkVars, ledger0, second, speculative, limiter, attr, conv, cli>>

\* download_image's outcomes: what it did with the payload file
\*   "skipped"  downloader.py 11-17 (deleted upstream, no URL)
\*   "failed"   downloader.py 25-27, 35-36 (status not 200, ClientError)
\*   "written"  downloader.py 30-33
ImageOutcomes(the_post) ==
    IF the_post.is_deleted \/ the_post.file_url = None
    THEN {"skipped"}
    ELSE {"failed", "written"}

\* download_post that marks only what download_image wrote
MarksAfterOutcomeWrittenOnly(outcome) == outcome = "written"

\* backend.py 145-148: mark_post_downloaded follows download_image whatever it did
MarksAfterOutcome(outcome) == outcome \in {"skipped", "failed", "written"}

\* backend.py 128-131, 140-151 and downloader.py 9-36: fetch_post answers a
\* document with these flags, download_image ends with this outcome
DownloadPost(flag, outcome) ==
    /\ pc = "dp_fetch_post"
    /\ fetched_post' = TRUE
    /\ LET pool_id == pool_ids[i]
           post_id == posts_to_download[k]
           the_post == Post(post_id, flag)
           index == IndexOf(pool.post_ids, post_id)
           file_path == Join(working_dir, FileName(index, the_post.file_ext))
           key == <<post_id, pool_id>>
       IN /\ outcome \in ImageOutcomes(the_post)
          /\ outcome = "written" => Resolve(working_dir) \in dirs
          /\ files' = IF outcome = "written" THEN files \cup {Resolve(file_path)} ELSE files
          /\ IF MarksAfterOutcome(outcome)
             THEN /\ downloaded_posts' = MarkPostDownloaded(downloaded_posts,
                         post_id, pool_id, file_path, index, run)
                  /\ speculative' = IF outcome = "written" THEN speculative \ {key}
                                    ELSE speculative \cup {key}
                  /\ Advance(Append(success, the_post.id), failed)
             ELSE /\ UNCHANGED <<downloaded_posts, speculative>>
                  /\ Advance(success, Append(failed, the_post.id))
    /\ UNCHANGED <<remoteVars, dirs, pools, run, env, pool_ids, skip_existing,
                   batch_pool, missing_posts, updateVars, checkVars, ledger0,
                   second, limiter, attr, conv, cli>>

\* downloader.py 30: the payload arrives and the directory is gone:
\* aiofiles.open raises FileNotFoundError, which nothing up to cli() catches
DownloadPostNoDirectory ==
    /\ pc = "dp_fetch_post"
    /\ Resolve(working_dir) \notin dirs
    /\ pc' = "idle"
    /\ second' = FALSE
    /\ ResetPoolLocals
    /\ ResetBatchLocals
    /\ ResetUpdateLocals
    /\ UNCHANGED <<remoteVars, fsVars, ledgerVars, run, env, checkVars,
                   speculative, limiter, attr, conv, cli>>

\* ------------------------------------------------------ uncaught exceptions
\* Nothing between the raising statement and cli() catches ValueError or
\* OSError: asyncio.run(main()) re-raises it and the run is over.
Unwind ==
    /\ pc' = "idle"
    /\ second' = FALSE
    /\ ResetPoolLocals
    /\ ResetBatchLocals
    /\ ResetUpdateLocals
    /\ ResetCheckLocals
    /\ UNCHANGED <<remoteVars, dirs, ledgerVars, run, speculative, limiter, attr, conv, cli>>

AbortRun ==
    /\ Unwind
    /\ UNCHANGED <<files, env>>

\* backend.py 43 and models.py 9-17: the pool document lacks a key, Pool(...)
\* raises ValueError out of fetch_pool
FetchPoolMalformed ==
    /\ pc \in {"ppi_fetch_pool", "dp_fetch_pool", "upd_check", "check_call"}
    /\ AbortRun

\* backend.py 52 and models.py 23-31: the post document lacks a key, Post(...)
\* raises ValueError out of fetch_post
FetchPostMalformed ==
    /\ pc \in {"dp_first_post", "dp_fetch_post"}
    /\ AbortRun

\* backend.py 90 and utils.py 16-18: mkdir raises OSError (no permission, a
\* file of that name) when the directory of the pool has to be created
CreateDirectoryRaises ==
    /\ pc = "dp_first_post"
    /\ ~ReuseDirectory(existing_pool, dirs)
    /\ AbortRun

\* ------------------------------------------------------------ cancellation
\* cli_entry.py 46-72. Ctrl-C while process_pool_ids runs: the task is
\* suspended at an await (in rate_limited_request or in download_image) and
\* CancelledError is thrown there, or (before Python 3.11) KeyboardInterrupt
\* is raised in the statement that runs; nothing on the way to main() handles
\* either, so the statements after that point do not run.
InProcessPoolIds == pc \in {"ppi_fetch_pool", "dp_fetch_pool", "dp_first_post", "dp_fetch_post"}

Interrupt ==
    /\ InProcessPoolIds
    /\ env < MaxEnv
    /\ env' = env + 1
    /\ files' = files
    /\ Unwind

\* Ctrl-C during aiofiles' write (downloader.py 30-31): the file is on disk,
\* cut short; download_image does not return, mark_post_downloaded is not
\* reached
InterruptInWrite ==
    /\ pc = "dp_fetch_post"
    /\ env < MaxEnv
    /\ Resolve(working_dir) \in dirs
    /\ env' = env + 1
    /\ LET post_id == posts_to_download[k]
           index == IndexOf(pool.post_ids, post_id)
       IN files' = files \cup {Resolve(Join(working_dir, FileName(index, "jpg")))}
    /\ Unwind

\* Python 3.11 and later: asyncio.run handles SIGINT with main_task.cancel().
\* Delivered while the task runs synchronous code (a ledger write, the
\* progress bar), the cancellation is thrown at the next suspension only; the
\* statements up to there run, rate_limited_request's first lines included.
InterruptDeferred ==
    /\ InProcessPoolIds
    /\ env < MaxEnv
    /\ env' = env + 1
    /\ pc' = "interrupted"
    /\ UNCHANGED <<remoteVars, fsVars, ledgerVars, run, batchVars, poolVars,
                   updateVars, checkVars, histVars, limiter, attr, conv, cli>>

\* backend.py 28-30: elapsed_time < RATE_LIMIT, the task suspends in
\* asyncio.sleep and is cancelled there
CancelledInSleep ==
    /\ pc = "interrupted"
    /\ AbortRun

\* backend.py 28-32: elapsed_time >= RATE_LIMIT, func(*args) is called; the
\* task suspends inside the request and is cancelled there
CancelledInCall ==
    /\ pc = "interrupted"
    /\ pc' = "call_cancelled"
    /\ UNCHANGED <<remoteVars, fsVars, ledgerVars, run, env, batchVars, poolVars,
                   updateVars, checkVars, histVars, limiter, attr, conv, cli>>

\* CancelledError leaves the request and reaches main()
CallCancelled ==
    /\ pc = "call_cancelled"
    /\ AbortRun

\* ------------------------------------------------- check_pool_for_updates
\* check_pool_for_updates that counts growth as new_count - old_count
CheckResultCountDifference(pools_tbl, posts_tbl, pool_id, current_pool) ==
    LET stored_pool == GetPoolInfo(pools_tbl, pool_id)
    IN IF stored_pool = None
       THEN [pool_id |-> pool_id, pool_name |-> current_pool.name, has_updates |-> TRUE,
             old_count |-> 0, new_count |-> current_pool.post_count,
             new_posts |-> current_pool.post_count]
       ELSE IF current_pool.post_count > stored_pool.post_count
       THEN [pool_id |-> pool_id, pool_name |-> current_pool.name, has_updates |-> TRUE,
             old_count |-> stored_pool.post_count, new_count |-> current_pool.post_count,
             new_posts |-> current_pool.post_count - stored_pool.post_count]
       ELSE [pool_id |-> pool_id, pool_name |-> current_pool.name, has_updates |-> FALSE,
             old_count |-> stored_pool.post_count, new_count |-> current_pool.post_count,
             new_posts |-> 0]

\* check_pool_for_updates that reports no update for a pool without a record
CheckResultNoBackfill(pools_tbl, posts_tbl, pool_id, current_pool) ==
    LET stored_pool == GetPoolInfo(pools_tbl, pool_id)
    IN IF stored_pool = None
       THEN [pool_id |-> pool_id, pool_name |-> current_pool.name, has_updates |-> FALSE,
             old_count |-> current_pool.post_count, new_count |-> current_pool.post_count,
             new_posts |-> 0]
       ELSE IF current_pool.post_count > stored_pool.post_count
       THEN [pool_id |-> pool_id, pool_name |-> current_pool.name, has_updates |-> TRUE,
             old_count |-> stored_pool.post_count, new_count |-> current_pool.post_count,
             new_posts |-> Cardinality(GetMissingPosts(posts_tbl, pool_id,
                                                       current_pool.post_ids))]
       ELSE [pool_id |-> pool_id, pool_name |-> current_pool.name, has_updates |-> FALSE,
             old_count |-> stored_pool.post_count, new_count |-> current_pool.post_count,
             new_posts |-> 0]

\* check_pool_for_updates that reports the unrecorded posts whatever the counts
CheckResultByMissing(pools_tbl, posts_tbl, pool_id, current_pool) ==
    LET stored_pool == GetPoolInfo(pools_tbl, pool_id)
        missing == GetMissingPosts(posts_tbl, pool_id, current_pool.post_ids)
    IN IF stored_pool = None
       THEN [pool_id |-> pool_id, pool_name |-> current_pool.name, has_updates |-> TRUE,
             old_count |-> 0, new_count |-> current_pool.post_count,
             new_posts |-> Len(current_pool.post_ids)]
       ELSE [pool_id |-> pool_id, pool_name |-> current_pool.name,
             has_updates |-> (missing # {}),
             old_count |-> stored_pool.post_count, new_count |-> current_pool.post_count,
             new_posts |-> Cardinality(missing)]

\* backend.py 165-204: the dict returned once the live pool was fetched
CheckResult(pools_tbl, posts_tbl, pool_id, current_pool) ==
    LET stored_pool == GetPoolInfo(pools_tbl, pool_id)
    IN IF stored_pool = None
       THEN [pool_id |-> pool_id, pool_name |-> current_pool.name, has_updates |-> TRUE,
             old_count |-> 0, new_count |-> current_pool.post_count,
             new_posts |-> Len(current_pool.post_ids)]
       ELSE IF current_pool.post_count > stored_pool.post_count
       THEN [pool_id |-> pool_id, pool_name |-> current_pool.name, has_updates |-> TRUE,
             old_count |-> stored_pool.post_count, new_count |-> current_pool.post_count,
             new_posts |-> Cardinality(GetMissingPosts(posts_tbl, pool_id,
                                                       current_pool.post_ids))]
       ELSE [pool_id |-> pool_id, pool_name |-> current_pool.name, has_updates |-> FALSE,
             old_count |-> stored_pool.post_count, new_count |-> current_pool.post_count,
             new_posts |-> 0]

\* E621Downloader.check_pool_for_updates is called for pool c
StartCheck(c) ==
    /\ pc = "idle"
    /\ pc' = "check_call"
    /\ check_id' = c
    /\ UNCHANGED <<remoteVars, fsVars, ledgerVars, run, env, batchVars, poolVars,
                   updateVars, update_info, histVars, limiter, attr, conv, cli>>

\* check_pool_for_updates that verifies the files of the pool before it compares
CheckCallVerifying(present) ==
    /\ pc = "check_call"
    /\ update_info' = IF present
                      THEN CheckResult(pools, downloaded_posts, check_id, Pool(check_id))
                      ELSE None
    /\ downloaded_posts' = VerifyDownloadedFiles(downloaded_posts, pools, check_id, files).rows
    /\ pc' = "check_return"
    /\ UNCHANGED <<remoteVars, fsVars, pools, run, env, batchVars, poolVars,
                   updateVars, check_id, histVars, limiter, attr, conv, cli>>

\* backend.py 160-204: answered absent (None) or with the live pool
CheckCall(present) ==
    /\ pc = "check_call"
    /\ update_info' = IF present
                      THEN CheckResult(pools, downloaded_posts, check_id, Pool(check_id))
                      ELSE None
    /\ pc' = "check_return"
    /\ UNCHANGED <<remoteVars, fsVars, ledgerVars, run, env, batchVars, poolVars,
                   updateVars, check_id, histVars, limiter, attr, conv, cli>>

\* the caller has the dict; the call is over
CheckReturn ==
    /\ pc = "check_return"
    /\ pc' = "idle"
    /\ ResetCheckLocals
    /\ UNCHANGED <<remoteVars, fsVars, ledgerVars, run, env, batchVars, poolVars,
                   updateVars, histVars, limiter, attr, conv, cli>>

\* ------------------------------------------------------- update_all_pools
\* get_all_downloaded_pools: ids ORDER BY last_updated DESC (ties in any order)
AllDownloadedPools(pools_tbl) ==
    {s \in Perms({r.id : r \in pools_tbl}) :
        \A a, b \in 1..Len(s) :
            a < b => GetPoolInfo(pools_tbl, s[a]).last_updated
                        >= GetPoolInfo(pools_tbl, s[b]).last_updated}

\* cli_entry.main --update: backend.py 261-272
StartUpdate ==
    /\ pc = "idle"
    /\ run < MaxRuns
    /\ run' = run + 1
    /\ \E s \in AllDownloadedPools(pools) :
          /\ all_pools' = s
          /\ pc' = IF Len(s) = 0 THEN "idle" ELSE "upd_check"
    /\ j' = 1
    /\ pools_with_updates' = <<>>
    /\ UNCHANGED <<remoteVars, fsVars, ledgerVars, env, batchVars, poolVars,
                   checkVars, histVars, limiter, attr, conv, cli>>

\* backend.py 277-287: one check of the loop, then the next, the prompt or return
UpdateCheck(present) ==
    /\ pc = "upd_check"
    /\ LET info == IF present
                   THEN CheckResult(pools, downloaded_posts, all_pools[j], Pool(all_pools[j]))
                   ELSE None
           found == IF info # None /\ info.has_updates
                    THEN Append(pools_with_updates, info)
                    ELSE pools_with_updates
       IN /\ update_info' = info
          /\ check_id' = all_pools[j]
          /\ pools_with_updates' = found
          /\ IF j < Len(all_pools)
             THEN j' = j + 1 /\ pc' = "upd_check"
             ELSE j' = j /\ pc' = IF found = <<>> THEN "upd_return" ELSE "upd_prompt"
    /\ UNCHANGED <<remoteVars, fsVars, ledgerVars, run, env, batchVars, poolVars,
                   all_pools, histVars, limiter, attr, conv, cli>>

\* backend.py 284-287: "All pools are up to date!", return
UpdateReturn ==
    /\ pc = "upd_return"
    /\ pc' = "idle"
    /\ ResetUpdateLocals
    /\ ResetCheckLocals
    /\ UNCHANGED <<remoteVars, fsVars, ledgerVars, run, env, batchVars, poolVars,
                   histVars, limiter, attr, conv, cli>>

\* backend.py 298-307: the user declines, or interrupts the prompt
UpdateDeclined ==
    /\ pc = "upd_prompt"
    /\ pc' = "idle"
    /\ ResetUpdateLocals
    /\ ResetCheckLocals
    /\ UNCHANGED <<remoteVars, fsVars, ledgerVars, run, env, batchVars, poolVars,
                   histVars, limiter, attr, conv, cli>>

\* backend.py 309-313: process_pool_ids(pool_ids_to_update, skip_existing=True)
UpdateConfirmed ==
    /\ pc = "upd_prompt"
    /\ EnterProcessPoolIds([n \in 1..Len(pools_with_updates) |-> pools_with_updates[n].pool_id],
                           TRUE)
    /\ second' = FALSE
    /\ ResetCheckLocals
    /\ UNCHANGED <<remoteVars, fsVars, ledgerVars, run, env, poolVars, updateVars,
                   speculative, limiter, attr, conv, cli>>

\* ------------------------------------------------------------ environment
\* Out-of-band changes happen while the program is not running or is
\* suspended at an await. The program sees a change at its next read of the
\* remote or the disk, so the model places a change right before a step that
\* reads what it changes: a pool is edited before it is fetched, a file is
\* deleted between two runs, a directory between two runs or before a write.

\* the pool the program is about to fetch
AboutToFetch ==
    IF pc \in {"ppi_fetch_pool", "dp_fetch_pool"} THEN {pool_ids[i]}
    ELSE IF pc = "upd_check" THEN {all_pools[j]}
    ELSE {}

\* the pool is edited upstream
EnvRemoteEdit(c, l) ==
    /\ env < MaxEnv
    /\ c \in AboutToFetch
    /\ l \in RemoteLists(c) \ {remote[c]}
    /\ remote' = [remote EXCEPT ![c] = l]
    /\ env' = env + 1
    /\ second' = FALSE
    /\ UNCHANGED <<fsVars, ledgerVars, run, pc, batchVars, poolVars, updateVars,
                   checkVars, ledger0, fetched_post, speculative, limiter, attr, conv, cli>>

IsShortcut(f) == f[Len(f)] = "shortcut.url"

\* a payload file is deleted
EnvDeleteFile(f) ==
    /\ env < MaxEnv
    /\ pc = "idle"
    /\ f \in files
    /\ ~IsShortcut(f)
    /\ files' = files \ {f}
    /\ env' = env + 1
    /\ UNCHANGED <<remoteVars, dirs, ledgerVars, run, pc, batchVars, poolVars,
                   updateVars, checkVars, histVars, limiter, attr, conv, cli>>

\* a pool directory is deleted with what it holds
EnvDeleteDirectory(d) ==
    /\ env < MaxEnv
    /\ \/ pc = "idle"
       \/ pc = "dp_fetch_post" /\ d = Resolve(working_dir)
    /\ d \in dirs
    /\ dirs' = dirs \ {d}
    /\ files' = {f \in files : ~StartsWith(f, d)}
    /\ env' = env + 1
    /\ UNCHANGED <<remoteVars, ledgerVars, run, pc, batchVars, poolVars,
                   updateVars, checkVars, histVars, limiter, attr, conv, cli>>

Init ==
    /\ FlowInit
    /\ limiter = None
    /\ attr = None
    /\ conv = None
    /\ cli = None

flowActionVars == <<remoteVars, fsVars, ledgerVars, run, env, pc, batchVars, poolVars,
                    updateVars, checkVars, histVars>>

Next ==
    \/ \E ids \in PoolIdLists, skip \in BOOLEAN : StartProcess(ids, skip)
    \/ RunAgain
    \/ ProcessReturn
    \/ BatchFetchPoolAbsent
    \/ BatchFetchPool
    \/ BatchComplete
    \/ DownloadFetchPoolAbsent
    \/ DownloadFetchPool
    \/ DownloadFirstPostAbsent
    \/ DownloadFirstPost
    \/ DownloadComplete
    \/ DownloadPostAbsent
    \/ \E flag \in PostFlags, outcome \in {"skipped", "failed", "written"} :
          DownloadPost(flag, outcome)
    \/ DownloadPostNoDirectory
    \/ FetchPoolMalformed
    \/ FetchPostMalformed
    \/ CreateDirectoryRaises
    \/ Interrupt
    \/ InterruptInWrite
    \/ InterruptDeferred
    \/ CancelledInSleep
    \/ CancelledInCall
    \/ CallCancelled
    \/ \E c \in Pools : StartCheck(c)
    \/ \E present \in BOOLEAN : CheckCall(present)
    \/ CheckReturn
    \/ StartUpdate
    \/ \E present \in BOOLEAN : UpdateCheck(present)
    \/ UpdateReturn
    \/ UpdateDeclined
    \/ UpdateConfirmed
    \/ \E c \in Pools : \E l \in RemoteLists(c) : EnvRemoteEdit(c, l)
    \/ \E f \in files : EnvDeleteFile(f)
    \/ \E d \in dirs : EnvDeleteDirectory(d)

Spec == Init /\ [][Next]_vars


\* --------------------------------------------------------------- liveness
\* SpecLive: process_pool_ids over a remote that answers every call with a
\* well-formed document or with nothing, no interrupt, and a disk that
\* changes only between two runs. The program is one task: whenever the
\* answer it awaits is there, the event loop runs it on, so the steps of the
\* program are weakly fair.
ProgramStep ==
    \/ ProcessReturn
    \/ BatchFetchPoolAbsent
    \/ BatchFetchPool
    \/ BatchComplete
    \/ DownloadFetchPoolAbsent
    \/ DownloadFetchPool
    \/ DownloadFirstPostAbsent
    \/ DownloadFirstPost
    \/ DownloadComplete
    \/ DownloadPostAbsent
    \/ \E flag \in PostFlags, outcome \in {"skipped", "failed", "written"} :
          DownloadPost(flag, outcome)

NextLive ==
    \/ \E ids \in PoolIdLists, skip \in BOOLEAN : StartProcess(ids, skip)
    \/ RunAgain
    \/ ProgramStep
    \/ \E c \in Pools : \E l \in RemoteLists(c) : EnvRemoteEdit(c, l)
    \/ \E f \in files : EnvDeleteFile(f)
    \/ \E d \in dirs : pc = "idle" /\ EnvDeleteDirectory(d)

\* every step of the program changes its position
position == <<pc, i, k>>

SpecLive == Init /\ [][NextLive]_vars /\ WF_position(ProgramStep)

\* ------------------------------------------------------------ rate limiter
\* SpecRate: the tasks of one process call rate_limited_request on the
\* downloader of the moment. update_all_pools builds a downloader (backend.py
\* 263) and process_pool_ids, which it calls at line 313, builds its own
\* (line 209): the second instance starts with last_request_time = 0 and a
\* free semaphore.
Tasks == {1, 2}

\* time.time() at the start of the process: far from 0, so that the first
\* call of an instance never sleeps
StartTime == RATE_LIMIT

RateInit ==
    limiter = [now |-> StartTime,
               instance |-> 1,
               last_request_time |-> 0,
               permit_free |-> TRUE,
               waiters |-> <<>>,
               tpc |-> [t \in Tasks |-> "idle"],
               wake |-> [t \in Tasks |-> 0],
               started |-> [t \in Tasks |-> 0],
               last_start |-> -1,
               last_end |-> -1,
               last_end_instance |-> 1,
               gap_same_instance |-> TRUE,
               last_gap |-> RATE_LIMIT,
               gap_after_raise |-> FALSE,
               since_end |-> RATE_LIMIT,
               last_raised |-> FALSE]

InitRate ==
    /\ FlowInit
    /\ RateInit
    /\ attr = None
    /\ conv = None
    /\ cli = None

\* the wall clock advances
Tick ==
    /\ limiter.now < MaxTime
    /\ limiter' = [limiter EXCEPT !.now = @ + 1]
    /\ UNCHANGED <<flowActionVars, attr, conv, cli>>

\* backend.py 27: async with self.rate_limit, the permit is free
Acquire(t) ==
    /\ limiter.tpc[t] = "idle"
    /\ limiter.permit_free
    /\ limiter.waiters = <<>>
    /\ limiter' = [limiter EXCEPT !.permit_free = FALSE, !.tpc[t] = "acquired"]
    /\ UNCHANGED <<flowActionVars, attr, conv, cli>>

\* a semaphore that lets a second task in while the permit is taken
EnqueueNoWait(t) ==
    /\ limiter.tpc[t] = "idle"
    /\ ~limiter.permit_free
    /\ limiter' = [limiter EXCEPT !.tpc[t] = "acquired"]
    /\ UNCHANGED <<flowActionVars, attr, conv, cli>>

\* backend.py 27: async with self.rate_limit, the permit is taken: queue
Enqueue(t) ==
    /\ limiter.tpc[t] = "idle"
    /\ ~limiter.permit_free
    /\ limiter' = [limiter EXCEPT !.waiters = Append(@, t), !.tpc[t] = "waiting"]
    /\ UNCHANGED <<flowActionVars, attr, conv, cli>>

\* the call starts: func(*args) is awaited (backend.py 32)
BeginCall(l, t) ==
    [l EXCEPT !.tpc[t] = "calling",
              !.started[t] = l.now,
              !.last_gap = IF l.last_start < 0 THEN RATE_LIMIT ELSE l.now - l.last_start,
              !.gap_after_raise = l.last_raised,
              !.gap_same_instance = (l.last_end_instance = l.instance),
              !.since_end = IF l.last_end < 0 THEN RATE_LIMIT ELSE l.now - l.last_end,
              !.last_start = l.now]

\* backend.py 28-32: elapsed_time is computed; the task sleeps or calls at once
ReadClock(t) ==
    /\ limiter.tpc[t] = "acquired"
    /\ LET elapsed_time == limiter.now - limiter.last_request_time
       IN IF elapsed_time < RATE_LIMIT
          THEN limiter' = [limiter EXCEPT !.tpc[t] = "sleeping",
                                          !.wake[t] = limiter.now + (RATE_LIMIT - elapsed_time)]
          ELSE limiter' = BeginCall(limiter, t)
    /\ UNCHANGED <<flowActionVars, attr, conv, cli>>

\* backend.py 30-32: asyncio.sleep is over (not before its delay), the call starts
Wake(t) ==
    /\ limiter.tpc[t] = "sleeping"
    /\ limiter.now >= limiter.wake[t]
    /\ limiter' = BeginCall(limiter, t)
    /\ UNCHANGED <<flowActionVars, attr, conv, cli>>

\* leaving async with: the permit goes to the first waiter, or is free again
Release(l, t) ==
    IF l.waiters = <<>>
    THEN [l EXCEPT !.permit_free = TRUE, !.tpc[t] = "idle"]
    ELSE [l EXCEPT !.tpc[t] = "idle",
                   !.tpc[Head(l.waiters)] = "acquired",
                   !.waiters = Tail(l.waiters)]

\* a marker set to the time the call started, not the time it completed
ReturnMarksStart(t) ==
    /\ limiter.tpc[t] = "calling"
    /\ limiter' = Release([limiter EXCEPT !.last_request_time = limiter.started[t],
                                          !.last_end = limiter.now,
                                          !.last_end_instance = limiter.instance,
                                          !.last_raised = FALSE], t)
    /\ UNCHANGED <<flowActionVars, attr, conv, cli>>

\* backend.py 32-34: func returns; last_request_time is set, the permit released
Return(t) ==
    /\ limiter.tpc[t] = "calling"
    /\ limiter' = Release([limiter EXCEPT !.last_request_time = limiter.now,
                                          !.last_end = limiter.now,
                                          !.last_end_instance = limiter.instance,
                                          !.last_raised = FALSE], t)
    /\ UNCHANGED <<flowActionVars, attr, conv, cli>>

\* a raising call that leaves the block with the permit still held
RaiseKeepsPermit(t) ==
    /\ limiter.tpc[t] = "calling"
    /\ limiter' = [limiter EXCEPT !.last_end = limiter.now,
                                  !.last_end_instance = limiter.instance,
                                  !.last_raised = TRUE,
                                  !.tpc[t] = "idle"]
    /\ UNCHANGED <<flowActionVars, attr, conv, cli>>

\* backend.py 32: func raises (a timeout, a malformed document); line 33 is
\* not reached, the permit is released by async with
Raise(t) ==
    /\ limiter.tpc[t] = "calling"
    /\ limiter' = Release([limiter EXCEPT !.last_end = limiter.now,
                                          !.last_end_instance = limiter.instance,
                                          !.last_raised = TRUE], t)
    /\ UNCHANGED <<flowActionVars, attr, conv, cli>>

\* backend.py 313 -> 209: process_pool_ids builds its own E621Downloader once
\* the checks of update_all_pools are over and the user confirmed
NewDownloader ==
    /\ limiter.instance = 1
    /\ \A t \in Tasks : limiter.tpc[t] = "idle"
    /\ limiter' = [limiter EXCEPT !.instance = 2,
                                  !.last_request_time = 0,
                                  !.permit_free = TRUE]
    /\ UNCHANGED <<flowActionVars, attr, conv, cli>>

NextRate ==
    \/ Tick
    \/ \E t \in Tasks : Acquire(t)
    \/ \E t \in Tasks : Enqueue(t)
    \/ \E t \in Tasks : ReadClock(t)
    \/ \E t \in Tasks : Wake(t)
    \/ \E t \in Tasks : Return(t)
    \/ \E t \in Tasks : Raise(t)
    \/ NewDownloader

SpecRate == InitRate /\ [][NextRate]_vars

\* ------------------------------------------------------------- attribution
\* SpecAttr: backend.py 79 applied to every artist list of a bounded length
ArtistNames == {Sentinel, "artistA", "artistB", "soloArtist"}

RECURSIVE ListsUpTo(_)
ListsUpTo(n) ==
    IF n = 0 THEN {<<>>}
    ELSE LET shorter == ListsUpTo(n - 1)
         IN shorter \cup {Append(l, a) : l \in {x \in shorter : Len(x) = n - 1},
                                          a \in ArtistNames}

InitAttr ==
    /\ FlowInit
    /\ limiter = None
    /\ conv = None
    /\ cli = None
    /\ \E l \in ListsUpTo(MaxArtists) :
          attr = [artists |-> l, resolved |-> FALSE, artist |-> ""]

\* backend.py 79: artist = ...
ResolveArtist ==
    /\ ~attr.resolved
    /\ attr' = [attr EXCEPT !.resolved = TRUE, !.artist = Attribution(attr.artists)]
    /\ UNCHANGED <<flowActionVars, limiter, conv, cli>>

NextAttr == ResolveArtist

SpecAttr == InitAttr /\ [][NextAttr]_vars


\* ------------------------------------------------------- path conversion
\* SpecPath: a path is stored by one DownloadDatabase instance and read back
\* by another instance built over the same base directory
PathNames == {"dl", "dl2", "x", ".", ".."}

BaseDirs == {<<".">>, <<"dl">>, Cwd \o <<"dl">>}

RECURSIVE PathsUpTo(_)
PathsUpTo(n) ==
    IF n = 0 THEN {<<>>}
    ELSE LET shorter == PathsUpTo(n - 1)
         IN shorter \cup {Append(q, a) : q \in {x \in shorter : Len(x) = n - 1},
                                          a \in PathNames}

InitPath ==
    /\ FlowInit
    /\ limiter = None
    /\ attr = None
    /\ cli = None
    /\ \E base \in BaseDirs, q \in PathsUpTo(MaxPath) :
          conv = [base |-> base, path |-> Cwd \o q, stored |-> <<>>,
                  read |-> <<>>, stage |-> "given"]

\* save_pool / mark_post_downloaded: the column holds _to_relative_path(path)
StorePath ==
    /\ conv.stage = "given"
    /\ conv' = [conv EXCEPT !.stored = ToRelativePathFrom(conv.base, conv.path),
                            !.stage = "stored"]
    /\ UNCHANGED <<flowActionVars, limiter, attr, cli>>

\* the process ends; the next one builds DownloadDatabase(base_download_dir)
RestartProcess ==
    /\ conv.stage = "stored"
    /\ conv' = [conv EXCEPT !.stage = "restarted"]
    /\ UNCHANGED <<flowActionVars, limiter, attr, cli>>

\* get_pool_info / verify_downloaded_files: _to_absolute_path of the column
ReadPath ==
    /\ conv.stage = "restarted"
    /\ conv' = [conv EXCEPT !.read = ToAbsolutePathFrom(conv.base, conv.stored),
                            !.stage = "read"]
    /\ UNCHANGED <<flowActionVars, limiter, attr, cli>>

NextPath == StorePath \/ RestartProcess \/ ReadPath

SpecPath == InitPath /\ [][NextPath]_vars

\* ------------------------------------------------------------ entry point
\* SpecCli: cli_entry.cli() from the command line to the exit status of the
\* process.  An argument is the list of its "/"-separated pieces, so that
\* pool.split("/")[-1] is its last piece.
MaxArgs == 2

MaxFailed == 2

Args == {<<"1">>, <<"2">>, <<"https:", "", "e621.net", "pools", "1">>,
         <<"pools", "2", "">>, <<"abc">>, <<"sup2">>}

RECURSIVE ArgListsUpTo(_)
ArgListsUpTo(n) ==
    IF n = 0 THEN {<<>>}
    ELSE ArgListsUpTo(n - 1) \cup
         {Append(l, a) : l \in {m \in ArgListsUpTo(n - 1) : Len(m) = n - 1}, a \in Args}

\* str.isdigit(): true of decimal digits and of other digit characters such
\* as the superscript two, written "sup2" here
IsDigit(piece) == piece \in {"1", "2", "sup2"}

\* int(): parses decimal digits only, ValueError otherwise
IntParses(piece) == piece \in {"1", "2"}

IntOf(piece) == IF piece = "1" THEN 1 ELSE 2

LastPiece(arg) == arg[Len(arg)]

\* cli_entry.py 41: the arguments whose last piece is all digits
DigitArgs(raw_ids) == SelectSeq(raw_ids, LAMBDA a : IsDigit(LastPiece(a)))

ParsePoolIds(raw_ids) ==
    [n \in 1..Len(DigitArgs(raw_ids)) |-> IntOf(LastPiece(DigitArgs(raw_ids)[n]))]

\* the interpreter ends: 0 when cli() returns, 1 when an exception leaves it
Exit(c, cause, status) ==
    [c EXCEPT !.stage = "exit", !.cause = cause, !.status = status]

InitCli ==
    /\ FlowInit
    /\ limiter = None
    /\ attr = None
    /\ conv = None
    /\ \E raw \in ArgListsUpTo(MaxArgs), update, force \in BOOLEAN :
          cli = [raw_ids |-> raw, update |-> update, force_redownload |-> force,
                 prompted |-> FALSE, pool_ids |-> <<>>, skip_existing |-> TRUE,
                 failed |-> 0, stage |-> "main", cause |-> "", status |-> 0]

\* cli_entry.py 21-27: --update, pool ids ignored
CliUpdateMode ==
    /\ cli.stage = "main"
    /\ cli.update
    /\ cli' = [cli EXCEPT !.stage = "update_all_pools"]
    /\ UNCHANGED <<flowActionVars, limiter, attr, conv>>

\* cli_entry.py 28-29: update_all_pools returns, main returns
CliUpdateReturns ==
    /\ cli.stage = "update_all_pools"
    /\ cli' = Exit(cli, "returned", 0)
    /\ UNCHANGED <<flowActionVars, limiter, attr, conv>>

\* cli_entry.py 33-35: no argument, the ids are read from standard input
CliPrompt(line) ==
    /\ cli.stage = "main"
    /\ ~cli.update
    /\ cli.raw_ids = <<>>
    /\ cli' = [cli EXCEPT !.prompted = TRUE, !.raw_ids = line, !.stage = "parse"]
    /\ UNCHANGED <<flowActionVars, limiter, attr, conv>>

\* cli_entry.py 35: input() at end of file raises EOFError, caught nowhere
CliPromptEof ==
    /\ cli.stage = "main"
    /\ ~cli.update
    /\ cli.raw_ids = <<>>
    /\ cli' = Exit(cli, "raised", 1)
    /\ UNCHANGED <<flowActionVars, limiter, attr, conv>>

CliGiven ==
    /\ cli.stage = "main"
    /\ ~cli.update
    /\ cli.raw_ids # <<>>
    /\ cli' = [cli EXCEPT !.stage = "parse"]
    /\ UNCHANGED <<flowActionVars, limiter, attr, conv>>

\* cli_entry.py 41: int() of a piece isdigit() accepts and int() rejects
CliParseRaises ==
    /\ cli.stage = "parse"
    /\ \E n \in 1..Len(DigitArgs(cli.raw_ids)) :
          ~IntParses(LastPiece(DigitArgs(cli.raw_ids)[n]))
    /\ cli' = Exit(cli, "raised", 1)
    /\ UNCHANGED <<flowActionVars, limiter, attr, conv>>

\* cli_entry.py 43-45: no valid id: logger.error and return
CliNoValidIds ==
    /\ cli.stage = "parse"
    /\ DigitArgs(cli.raw_ids) = <<>>
    /\ cli' = Exit(cli, "no_valid_ids", 0)
    /\ UNCHANGED <<flowActionVars, limiter, attr, conv>>

\* cli_entry.py 41, 47-49: process_pool_ids is called with the ids
CliProcess ==
    /\ cli.stage = "parse"
    /\ DigitArgs(cli.raw_ids) # <<>>
    /\ \A n \in 1..Len(DigitArgs(cli.raw_ids)) :
          IntParses(LastPiece(DigitArgs(cli.raw_ids)[n]))
    /\ cli' = [cli EXCEPT !.pool_ids = ParsePoolIds(cli.raw_ids),
                          !.skip_existing = ~cli.force_redownload,
                          !.stage = "process_pool_ids"]
    /\ UNCHANGED <<flowActionVars, limiter, attr, conv>>

\* cli_entry.py 49-50: process_pool_ids returns the failed posts, main returns
CliProcessReturns(n) ==
    /\ cli.stage = "process_pool_ids"
    /\ cli' = [Exit(cli, "returned", 0) EXCEPT !.failed = n]
    /\ UNCHANGED <<flowActionVars, limiter, attr, conv>>

\* cli_entry.py 51-52: CancelledError is caught, main returns
CliProcessCancelled ==
    /\ cli.stage = "process_pool_ids"
    /\ cli' = Exit(cli, "cancelled", 0)
    /\ UNCHANGED <<flowActionVars, limiter, attr, conv>>

\* an exception other than CancelledError leaves process_pool_ids or
\* update_all_pools (a malformed API document, a directory that cannot be
\* created): main, asyncio.run and cli let it through
CliRaises ==
    /\ cli.stage \in {"process_pool_ids", "update_all_pools"}
    /\ cli' = Exit(cli, "raised", 1)
    /\ UNCHANGED <<flowActionVars, limiter, attr, conv>>

\* cli_entry.py 58-72: KeyboardInterrupt out of asyncio.run; the handler asks
\* for the event loop asyncio.run has closed, which ends the handler normally
\* or with RuntimeError depending on the interpreter
CliKeyboardInterrupt(status) ==
    /\ cli.stage \in {"process_pool_ids", "update_all_pools"}
    /\ cli' = Exit(cli, "interrupted", status)
    /\ UNCHANGED <<flowActionVars, limiter, attr, conv>>

NextCli ==
    \/ CliUpdateMode
    \/ CliUpdateReturns
    \/ \E line \in ArgListsUpTo(MaxArgs) : CliPrompt(line)
    \/ CliPromptEof
    \/ CliGiven
    \/ CliParseRaises
    \/ CliNoValidIds
    \/ CliProcess
    \/ \E n \in 0..MaxFailed : CliProcessReturns(n)
    \/ CliProcessCancelled
    \/ CliRaises
    \/ \E status \in {0, 1} : CliKeyboardInterrupt(status)

SpecCli == InitCli /\ [][NextCli]_vars


\* ================================================================= claims
\* rows of the table under the key (post_id, pool_id)
RowsOf(posts_tbl, post_id, pool_id) ==
    {r \in posts_tbl : r.post_id = post_id /\ r.pool_id = pool_id}

\* the listed posts with no row under the pool
Unrecorded(posts_tbl, pool_id, post_ids) ==
    {p \in Range(post_ids) : RowsOf(posts_tbl, p, pool_id) = {}}

\* ---- C1
\* C1 (rate ceiling): of two consecutive rate-limited calls of one process
\* run, the later starts at least RATE_LIMIT after the earlier started, the
\* calls of update_all_pools followed by those of process_pool_ids included
\* (the earlier call returned normally).
C1_RateCeiling ==
    ~limiter.gap_after_raise => limiter.last_gap >= RATE_LIMIT

\* ---- C2
\* every post of every listed pool has a row in the ledger as the call began
AllRecorded ==
    \A n \in 1..Len(pool_ids) :
        Unrecorded(ledger0.posts, pool_ids[n], remote[pool_ids[n]]) = {}

\* the second of two process_pool_ids calls over the same pools has returned
SecondRunOver == pc = "ppi_return" /\ second

LedgerAsBefore == pools = ledger0.pools /\ downloaded_posts = ledger0.posts

\* the first run fetched every listed pool and its first post, and saved it
AllSaved ==
    \A n \in 1..Len(pool_ids) : GetPoolInfo(ledger0.pools, pool_ids[n]) # None

C3_NoSpeculativeRecord ==
    \A r \in downloaded_posts : <<r.post_id, r.pool_id>> \notin speculative

\* ---- C4
\* C4 (verify before skip): when process_pool_ids declares a pool already
\* complete, no row of a listed post whose file was written and is gone made
\* the post count as downloaded.
C4_StaleRowNeverSkips ==
    pc = "ppi_complete" =>
        \A r \in downloaded_posts :
            (/\ r.pool_id = pool_ids[i]
             /\ r.post_id \in Range(batch_pool.post_ids)
             /\ <<r.post_id, r.pool_id>> \notin speculative)
                => ToAbsolutePath(r.file_path) \in files

\* ---- C5
\* the step of download_pool that runs verify_downloaded_files and then
\* get_missing_posts (backend.py 99-104)
VerifyStep ==
    /\ pc = "dp_first_post"
    /\ pc' \in {"dp_fetch_post", "dp_complete"}
    /\ skip_existing

\* C5 (verifier self-heal): a row (p, c) whose file is not on disk is deleted
\* by verify_downloaded_files(c), p is in the list it returns, and p is in the
\* next get_missing_posts(c, all) when p is in all.
C5_SelfHeal ==
    [][VerifyStep =>
         \A r \in downloaded_posts :
            (r.pool_id = pool_ids[i] /\ ToAbsolutePath(r.file_path) \notin files')
               => /\ RowsOf(downloaded_posts', r.post_id, r.pool_id) = {}
                  /\ r.post_id \in Range(missing_files')
                  /\ r.post_id \in Range(pool.post_ids)
                        => r.post_id \in Range(posts_to_download')]_vars

C5_Witness ==
    /\ pc = "dp_fetch_post"
    /\ k = 1
    /\ skip_existing
    /\ missing_files # <<>>
    /\ \E p \in Range(missing_files) : p \in Range(posts_to_download)

\* ---- C6
\* the step of download_post that calls mark_post_downloaded (backend.py 148)
MarkStep ==
    /\ pc = "dp_fetch_post"
    /\ Len(success') = Len(success) + 1

\* C6 (key uniqueness, last write wins): at most one row exists for each
\* (post_id, pool_id); mark_post_downloaded leaves exactly one row under its
\* key, holding the path and the position it was given, and every row under
\* another key as it was.
C6_KeyUniqueness ==
    [][/\ \A r1, r2 \in downloaded_posts' :
             (r1.post_id = r2.post_id /\ r1.pool_id = r2.pool_id) => r1 = r2
       /\ MarkStep =>
             LET post_id == posts_to_download[k]
                 pool_id == pool_ids[i]
                 index == IndexOf(pool.post_ids, post_id)
                 mine == RowsOf(downloaded_posts', post_id, pool_id)
             IN /\ Cardinality(mine) = 1
                /\ \A r \in mine :
                      /\ r.position = index
                      /\ ToAbsolutePath(r.file_path)
                            = Resolve(Join(working_dir, FileName(index, "jpg")))
                /\ downloaded_posts' \ mine
                      = downloaded_posts \ RowsOf(downloaded_posts, post_id, pool_id)]_vars

\* a row that was in the ledger when the call began has been replaced by a
\* later mark with another position
C6_Witness ==
    /\ ~skip_existing
    /\ pc \in {"dp_fetch_post", "ppi_fetch_pool", "ppi_return"}
    /\ \E r \in downloaded_posts, r0 \in ledger0.posts :
          /\ r.post_id = r0.post_id
          /\ r.pool_id = r0.pool_id
          /\ r.downloaded_at > r0.downloaded_at
          /\ r.position # r0.position
          /\ r.file_path # r0.file_path

\* ---- C7
\* the step of process_pool_ids that calls get_missing_posts (backend.py 232)
BatchMissingStep ==
    /\ pc = "ppi_fetch_pool"
    /\ pc' \in {"ppi_complete", "dp_fetch_pool"}
    /\ skip_existing

\* C7 (missing-set correctness): get_missing_posts(c, all_post_ids) is
\* exactly the set of the ids of all_post_ids with no row under c at the time
\* of the call, whatever marks and verifications came before, for c or for
\* another pool.
C7_MissingSet ==
    [][/\ BatchMissingStep =>
             missing_posts' = Unrecorded(downloaded_posts, pool_ids[i], remote[pool_ids[i]])
       /\ VerifyStep =>
             Range(posts_to_download')
                = Unrecorded(downloaded_posts', pool_ids[i], pool.post_ids)]_vars

\* a post is missing under this pool while it has a row under another pool,
\* and another post of the pool has a row
C7_Witness ==
    /\ pc = "dp_fetch_pool"
    /\ skip_existing
    /\ missing_posts # Range(batch_pool.post_ids)
    /\ \E p \in missing_posts :
          \E r \in downloaded_posts : r.post_id = p /\ r.pool_id # pool_ids[i]

\* ---- C8
\* C8 (attribution fallback): the attribution is "artistA" for
\* ["conditional_dnp", "artistA"], the placeholder for ["conditional_dnp"]
\* alone, the placeholder for [], and "soloArtist" for ["soloArtist"].
C8_AttributionFallback ==
    attr.resolved =>
        /\ attr.artists = <<Sentinel, "artistA">> => attr.artist = "artistA"
        /\ attr.artists = <<Sentinel>> => attr.artist = Placeholder
        /\ attr.artists = <<>> => attr.artist = Placeholder
        /\ attr.artists = <<"soloArtist">> => attr.artist = "soloArtist"

\* ---- C9
\* a step that runs check_pool_for_updates to its return
CheckStep == pc \in {"check_call", "upd_check"} /\ env' = env

CheckedPool == IF pc = "check_call" THEN check_id ELSE all_pools[j]

\* C9 (update detection on growth): with a pools row and a live count above
\* the stored count, check_pool_for_updates returns has_updates, old_count =
\* the stored count, new_count = the live count and new_posts = the number of
\* live ids with no row in the ledger.
C9_GrowthDetected ==
    [][(/\ CheckStep
        /\ update_info' # None
        /\ GetPoolInfo(pools, CheckedPool) # None
        /\ Len(remote[CheckedPool]) > GetPoolInfo(pools, CheckedPool).post_count)
           => /\ update_info'.has_updates
              /\ update_info'.old_count = GetPoolInfo(pools, CheckedPool).post_count
              /\ update_info'.new_count = Len(remote[CheckedPool])
              /\ update_info'.new_posts
                    = Cardinality(Unrecorded(downloaded_posts, CheckedPool,
                                             remote[CheckedPool]))]_vars

\* growth was reported with new_posts other than new_count - old_count
C9_Witness ==
    /\ pc \in {"upd_check", "upd_prompt", "check_return"}
    /\ update_info # None
    /\ update_info.has_updates
    /\ GetPoolInfo(pools, update_info.pool_id) # None
    /\ update_info.new_count > update_info.old_count
    /\ update_info.old_count > 0
    /\ update_info.new_posts # update_info.new_count - update_info.old_count

\* ---- C10
\* C10 (update check, no ledger record): the live pool is fetched and no
\* pools row exists: check_pool_for_updates returns has_updates, old_count =
\* 0, new_count = the live count, new_posts = the number of live ids.
C10_NoRecordBackfill ==
    [][(/\ CheckStep
        /\ update_info' # None
        /\ GetPoolInfo(pools, CheckedPool) = None)
           => /\ update_info'.has_updates
              /\ update_info'.old_count = 0
              /\ update_info'.new_count = Len(remote[CheckedPool])
              /\ update_info'.new_posts = Len(remote[CheckedPool])]_vars

C10_Witness ==
    /\ pc = "check_return"
    /\ update_info # None
    /\ GetPoolInfo(pools, check_id) = None
    /\ update_info.has_updates
    /\ update_info.new_count > 0

\* ---- C11
\* C11 (update check without growth): with a pools row and a live count equal
\* to or below the stored count, check_pool_for_updates returns a dict with
\* has_updates false and new_posts 0, whatever ids the live list holds.
C11_NoGrowthNoUpdate ==
    [][(/\ CheckStep
        /\ update_info' # None
        /\ GetPoolInfo(pools, CheckedPool) # None
        /\ Len(remote[CheckedPool]) <= GetPoolInfo(pools, CheckedPool).post_count)
           => /\ ~update_info'.has_updates
              /\ update_info'.new_posts = 0
              /\ update_info'.old_count = GetPoolInfo(pools, CheckedPool).post_count
              /\ update_info'.new_count = Len(remote[CheckedPool])]_vars

\* no update was reported although a live id has no row
C11_Witness ==
    /\ pc \in {"check_return", "upd_return"}
    /\ update_info # None
    /\ ~update_info.has_updates
    /\ GetPoolInfo(pools, update_info.pool_id) # None
    /\ Unrecorded(downloaded_posts, update_info.pool_id, remote[update_info.pool_id]) # {}

\* ---- C12
\* C12 (the check is read-only): whatever its outcome, a check_pool_for_updates
\* call leaves the pools and downloaded_posts tables as they were.
C12_CheckReadsOnly ==
    [][CheckStep => (pools' = pools /\ downloaded_posts' = downloaded_posts)]_vars

\* a check returned while a row of the checked pool had lost its file
C12_Witness ==
    /\ pc = "check_return"
    /\ update_info # None
    /\ \E r \in downloaded_posts :
          r.pool_id = check_id /\ ToAbsolutePath(r.file_path) \notin files

\* ---- C13
\* the path lies under the base directory
UnderBase == StartsWith(Resolve(conv.path), Resolve(conv.base))

\* C13 as stated (path round trip): an absolute path under the base directory,
\* stored and read back by a new instance over the same base directory, comes
\* back exactly as it was.
C13_RoundTripAsStated ==
    (conv.stage = "read" /\ UnderBase) => conv.read = conv.path

\* C13 (path round trip, amended): an absolute path under the base directory
\* that is in resolved form (no "." or ".." component) comes back exactly as
\* it was; any other comes back as its resolved form.
C13_RoundTrip ==
    (conv.stage = "read" /\ UnderBase)
        => /\ conv.read = Resolve(conv.path)
           /\ conv.path = Resolve(conv.path) => conv.read = conv.path

C13_Witness ==
    /\ conv.stage = "read"
    /\ UnderBase
    /\ conv.path = Resolve(conv.path)
    /\ Len(conv.path) > Len(Resolve(conv.base))
    /\ ~IsAbsolute(conv.stored)

\* ---- C14
\* the tasks inside async with self.rate_limit
Holders == {t \in Tasks : limiter.tpc[t] \in {"acquired", "sleeping", "calling"}}

\* the step in which the operation of task t raises
RaiseStep(t) ==
    /\ limiter.tpc[t] = "calling"
    /\ limiter'.tpc[t] = "idle"
    /\ limiter'.last_raised

\* C14 (failure semantics, permit): when the operation raises the permit is
\* released: it is free again or handed to the first waiter, and a taken
\* permit always has a task holding it, so no later call waits forever.
C14_PermitReleasedOnRaise ==
    [][/\ \A t \in Tasks :
             RaiseStep(t) =>
                IF limiter.waiters = <<>>
                THEN limiter'.permit_free
                ELSE limiter'.tpc[Head(limiter.waiters)] = "acquired"
       /\ ~limiter'.permit_free =>
             \E t \in Tasks : limiter'.tpc[t] \in {"acquired", "sleeping", "calling"}]_vars

\* a call raised, the permit was taken again and the next call is in flight
C14_Witness ==
    /\ limiter.last_raised
    /\ limiter.gap_after_raise
    /\ \E t \in Tasks : limiter.tpc[t] = "calling" /\ limiter.started[t] = limiter.last_start

\* ---- C15
\* C15 (failure semantics, marker): when the operation raises,
\* last_request_time is still set to the end of the attempt, so the call after
\* a raised call starts at least RATE_LIMIT after the attempt ended.
C15_MarkerUpdatedOnRaise ==
    limiter.gap_after_raise => limiter.since_end >= RATE_LIMIT

\* ---- C16
\* C16 (mutual exclusion): at most one task is inside the permit, hence at
\* most one operation is between its start and its completion, and
\* last_request_time is read and written only by the task holding the permit.
C16_MutualExclusion ==
    [][/\ Cardinality({t \in Tasks :
                         limiter'.tpc[t] \in {"acquired", "sleeping", "calling"}}) <= 1
       /\ Cardinality({t \in Tasks : limiter'.tpc[t] = "calling"}) <= 1
       /\ (/\ limiter'.instance = limiter.instance
           /\ limiter'.last_request_time # limiter.last_request_time)
             => \E t \in Holders : ~limiter.permit_free /\ limiter.tpc[t] = "calling"
       /\ \A t \in Tasks :
             (limiter.tpc[t] = "acquired" /\ limiter'.tpc[t] # "acquired")
                => (Holders = {t} /\ ~limiter.permit_free)]_vars

\* one task's operation is in flight while another task waits for the permit
C16_Witness ==
    \E t, u \in Tasks : limiter.tpc[t] = "calling" /\ limiter.tpc[u] = "waiting"

\* ---- C17
\* a step of download_post for the planned item posts_to_download[k]
ItemStep == pc = "dp_fetch_post" /\ env' = env

\* C17 (per-item failure isolation): whatever fails for one planned item
\* (metadata absent or malformed, payload failure), the item yields one
\* outcome, nothing is thrown past download_post, and the next planned item
\* of the pool is dispatched.
C17_ItemFailureIsolated ==
    [][ItemStep =>
          /\ Len(success') + Len(failed') = Len(success) + Len(failed) + 1
          /\ pc' \in {"dp_fetch_post", "ppi_fetch_pool", "ppi_return"}
          /\ k < Len(posts_to_download) => (pc' = "dp_fetch_post" /\ k' = k + 1)]_vars

\* ---- C18
\* a step of process_pool_ids or download_pool made for pool_ids[i] as a whole
CollectionStep ==
    /\ pc \in {"ppi_fetch_pool", "dp_fetch_pool", "dp_first_post"}
    /\ env' = env

\* C18 (batch isolation): a failure of collection pool_ids[i] (malformed
\* document, directory creation error) ends that collection only: while a
\* later pool is listed, process_pool_ids goes on with this pool or moves to
\* the next one.
C18_BatchIsolated ==
    [][(CollectionStep /\ i < Len(pool_ids)) =>
          \/ pc' \in {"ppi_complete", "dp_fetch_pool", "dp_first_post",
                      "dp_complete", "dp_fetch_post"} /\ i' = i
          \/ pc' = "ppi_fetch_pool" /\ i' = i + 1]_vars

\* ---- C19
\* download_pool is exhausted for pool_ids[i]
PoolEndStep ==
    /\ pc \in {"dp_fetch_pool", "dp_first_post", "dp_complete", "dp_fetch_post"}
    /\ pc' \in {"ppi_fetch_pool", "ppi_return"}

\* C19 (failure aggregation): each item outcome goes to exactly one of the two
\* lists and a failed item does not stop the dispatch of the items after it;
\* when a pool is done its failed list is filed under its id if and only if
\* it is not empty, the other entries staying as they are; so the map
\* returned holds exactly the pools with failed items, each with its list.
C19_FailureAggregation ==
    [][/\ (ItemStep /\ pc' # "idle") =>
             /\ \/ failed' = Append(failed, posts_to_download[k]) /\ success' = success
                \/ success' = Append(success, posts_to_download[k]) /\ failed' = failed
             /\ k < Len(posts_to_download) => (pc' = "dp_fetch_post" /\ k' = k + 1)
       /\ PoolEndStep =>
             /\ failed' # <<>> =>
                   /\ pool_ids[i] \in DOMAIN all_failed'
                   /\ all_failed'[pool_ids[i]] = failed'
             /\ failed' = <<>> => DOMAIN all_failed' = DOMAIN all_failed
             /\ \A c \in DOMAIN all_failed' \ {pool_ids[i]} :
                   c \in DOMAIN all_failed /\ all_failed'[c] = all_failed[c]
       /\ \A c \in DOMAIN all_failed' :
             all_failed'[c] # <<>> /\ c \in Range(pool_ids')]_vars

\* two pools were processed; the first had a failed item and a downloaded
\* one, the second none failed: the map holds the first pool only
C19_Witness ==
    /\ pc = "ppi_return"
    /\ Len(pool_ids) = 2
    /\ DOMAIN all_failed = {pool_ids[1]}
    /\ \E r \in downloaded_posts : r.pool_id = pool_ids[1] /\ r.downloaded_at = run
    /\ \E r \in downloaded_posts : r.pool_id = pool_ids[2] /\ r.downloaded_at = run

\* ---- C20
\* C20 (cancellation): once the interrupt is delivered during
\* process_pool_ids no new rate-limited call is started (and no row is added
\* for an item whose file write had not completed): the run never gets to
\* call func after the interrupt.
C20_NoCallAfterInterrupt == pc # "call_cancelled"

\* ---- C21
\* the step of download_pool that calls save_pool (backend.py 96)
SaveStep ==
    /\ pc = "dp_first_post"
    /\ pc' \in {"dp_fetch_post", "dp_complete"}

\* C21 (save_pool is insert-or-replace): at most one pools row exists per id;
\* after save_pool the row of the pool holds the name, the attribution, the
\* directory and the count just given and a fresh timestamp, the rows of the
\* other pools are as they were, and no downloaded_posts row is added or
\* changed (the rows dropped in the same step are those verification drops).
C21_SavePoolReplaces ==
    [][/\ \A r1, r2 \in pools' : r1.id = r2.id => r1 = r2
       /\ SaveStep =>
             LET mine == {r \in pools' : r.id = pool_ids[i]}
             IN /\ Cardinality(mine) = 1
                /\ \A r \in mine :
                      /\ r.name = pool.name
                      /\ r.artist = artist'
                      /\ ToAbsolutePath(r.folder_path) = Resolve(working_dir')
                      /\ r.post_count = pool.post_count
                      /\ r.last_updated = run
                /\ pools' \ mine = {r \in pools : r.id # pool_ids[i]}
                /\ downloaded_posts' \subseteq downloaded_posts
                /\ \A r \in downloaded_posts \ downloaded_posts' :
                      /\ skip_existing
                      /\ r.pool_id = pool_ids[i]
                      /\ ToAbsolutePath(r.file_path) \notin files']_vars

\* the row saved by an earlier run has been replaced: new count, new timestamp
C21_Witness ==
    /\ pc \in {"dp_fetch_post", "dp_complete"}
    /\ GetPoolInfo(ledger0.pools, pool_ids[i]) # None
    /\ GetPoolInfo(pools, pool_ids[i]) # None
    /\ GetPoolInfo(pools, pool_ids[i]).last_updated
          > GetPoolInfo(ledger0.pools, pool_ids[i]).last_updated
    /\ GetPoolInfo(pools, pool_ids[i]).post_count
          # GetPoolInfo(ledger0.pools, pool_ids[i]).post_count
    /\ \E r \in pools : r.id # pool_ids[i]

\* ---- C22
\* C22 (exit status): when main() has been given no valid pool id the process
\* ends with a status other than zero; when process_pool_ids has run and
\* returned the status is zero whatever the number of failed posts.
C22_ExitStatus ==
    (cli # None /\ cli.stage = "exit" /\ ~cli.update)
        => /\ cli.cause = "no_valid_ids" => cli.status # 0
           /\ cli.cause = "returned" => cli.status = 0

\* ---- C23
\* C23 (downloaded means transferred): download_post yields "downloaded" for
\* the planned item only when download_image wrote the file; when the payload
\* was skipped (deleted, no URL) or the transfer failed, the item is yielded
\* as failed.
C23_DownloadedMeansWritten ==
    [][(ItemStep /\ Len(success') + Len(failed') = Len(success) + Len(failed) + 1) =>
          (<<posts_to_download[k], pool_ids[i]>> \in speculative'
              => Len(failed') = Len(failed) + 1)]_vars

\* ---- C24
\* C24 (marker set at completion): of two consecutive operations run through
\* the rate_limited_request of one downloader, the earlier returning normally,
\* the later starts at least RATE_LIMIT after the earlier completed, however
\* long the earlier took.
C24_GapFromCompletion ==
    (/\ limiter.gap_same_instance
     /\ ~limiter.gap_after_raise)
        => limiter.since_end >= RATE_LIMIT

\* the later call has started exactly RATE_LIMIT after the completion of an
\* earlier call of the same downloader that ran for two ticks and returned
C24_Witness ==
    /\ \E t \in Tasks : limiter.tpc[t] = "calling" /\ limiter.started[t] = limiter.last_start
    /\ limiter.last_end >= 0
    /\ limiter.last_end <= limiter.last_start
    /\ limiter.gap_same_instance
    /\ ~limiter.gap_after_raise
    /\ limiter.since_end = RATE_LIMIT
    /\ limiter.last_gap >= limiter.since_end + 2

\* ---- C25
\* C25 (attribution rule): for every artist list of the first post, the
\* attribution is the second entry when the first entry is the sentinel and
\* the list has at least two entries; otherwise the first entry when the list
\* is not empty; otherwise the placeholder "Unknown Artist".
C25_AttributionRule ==
    attr.resolved =>
        LET L == attr.artists
        IN CASE Len(L) >= 2 /\ L[1] = Sentinel -> attr.artist = L[2]
             [] Len(L) >= 1 /\ ~(Len(L) >= 2 /\ L[1] = Sentinel) -> attr.artist = L[1]
             [] Len(L) = 0 -> attr.artist = Placeholder

\* a list of three entries led by the sentinel has been resolved to its
\* second entry
C25_Witness ==
    /\ attr.resolved
    /\ Len(attr.artists) = 3
    /\ attr.artists[1] = Sentinel
    /\ attr.artists[2] # Sentinel
    /\ attr.artist = attr.artists[2]

\* ---- C26
\* download_pool ends before its work set exists: fetch_pool answered nothing
\* or a pool with no posts, or the first post is absent
EarlyEndStep ==
    /\ pc \in {"dp_fetch_pool", "dp_first_post"}
    /\ pc' \in {"ppi_fetch_pool", "ppi_return"}

\* C26 (early termination leaves no trace): when download_pool ends because
\* the pool document is absent, the post list is empty or the first post is
\* absent, no item outcome is yielded, no directory and no file (shortcut
\* included) is created, and no pools row and no downloaded_posts row is
\* written.
C26_EarlyEndNoTrace ==
    [][EarlyEndStep =>
          /\ success' = <<>> /\ failed' = <<>>
          /\ all_failed' = all_failed
          /\ dirs' = dirs
          /\ files' = files
          /\ pools' = pools
          /\ downloaded_posts' = downloaded_posts]_vars

\* process_pool_ids has returned after a download_pool that asked for the
\* first post and saved nothing: the first post was absent
C26_Witness ==
    /\ pc = "ppi_return"
    /\ fetched_post
    /\ pools = {}
    /\ \E n \in 1..Len(pool_ids) : remote[pool_ids[n]] # <<>>

\* ---- C27
\* the pools row of pool_ids[i] names a directory that is on disk
RecordedDirectoryExists ==
    \E r \in pools :
        /\ r.id = pool_ids[i]
        /\ Resolve(ToAbsolutePath(r.folder_path)) \in dirs

\* C27 (directory reuse): when download_pool reaches its directory choice and
\* the pool has a pools row whose resolved path is on disk, that directory is
\* the working directory and no directory and no file is created, whatever
\* the name and the attribution of the moment; otherwise (no row, or the
\* recorded path is gone) the directory named after the pool and the
\* attribution is created with its shortcut and is the working directory.
C27_DirectoryReuse ==
    [][SaveStep =>
          IF RecordedDirectoryExists
          THEN /\ \E r \in pools :
                     /\ r.id = pool_ids[i]
                     /\ Resolve(working_dir') = Resolve(ToAbsolutePath(r.folder_path))
               /\ dirs' = dirs
               /\ files' = files
          ELSE /\ working_dir' = DirectoryPath(pool.name, artist')
               /\ dirs' = dirs \cup {Resolve(working_dir')}
               /\ files' = files \cup {ShortcutPath(working_dir')}]_vars

\* the recorded directory is in use although the attribution of the moment
\* differs from the recorded one and names a directory that does not exist
C27_Witness ==
    /\ pc \in {"dp_fetch_post", "dp_complete"}
    /\ existing_pool # None
    /\ Resolve(working_dir) = Resolve(existing_pool.folder_path)
    /\ Resolve(working_dir) \in dirs
    /\ artist # existing_pool.artist
    /\ Resolve(DirectoryPath(pool.name, artist)) \notin dirs
    /\ ShortcutPath(DirectoryPath(pool.name, artist)) \notin files

\* ---- C28
\* pool_ids[i] has a pools row and downloaded_posts rows, and the directory
\* the pools row names is not on disk
StaleDirectory ==
    /\ \E r \in pools :
          r.id = pool_ids[i] /\ Resolve(ToAbsolutePath(r.folder_path)) \notin dirs
    /\ \E r \in downloaded_posts : r.pool_id = pool_ids[i]

\* process_pool_ids, skipping existing posts, has fetched the document of
\* pool_ids[i], which lists posts
BatchFetchedStep ==
    /\ pc = "ppi_fetch_pool"
    /\ pc' \in {"ppi_complete", "dp_fetch_pool"}
    /\ skip_existing
    /\ remote[pool_ids[i]] # <<>>

\* C28 (stale directory recovery): when a pool has a pools row and
\* downloaded_posts rows and its directory is gone, a skip-existing
\* process_pool_ids whose fetches succeed goes into download_pool, which
\* creates a fresh directory and removes the old rows as they fail
\* verification, so that every listed post is planned for download into the
\* new directory.
C28_StaleDirectoryRecovered ==
    [][/\ (BatchFetchedStep /\ StaleDirectory) => pc' = "dp_fetch_pool"
       /\ (SaveStep /\ skip_existing /\ StaleDirectory) =>
             /\ Resolve(working_dir') \in dirs' \ dirs
             /\ \A r \in downloaded_posts' : r.pool_id # pool_ids[i]
             /\ pc' = "dp_fetch_post"
             /\ Range(posts_to_download') = Range(pool.post_ids)]_vars

\* ---- C29
\* process_pool_ids is done with pool_ids[i], whose document listed posts and
\* whose first post was not found absent
ProcessedStep ==
    /\ pc \in {"ppi_complete", "dp_complete", "dp_fetch_post"}
    /\ pc' \in {"ppi_fetch_pool", "ppi_return"}
    /\ batch_pool.post_ids # <<>>

\* C29 (unconditional persist): every time process_pool_ids has processed a
\* pool whose document lists posts and whose first post is reachable, the
\* pools row of the pool has been saved in this run with the live post count
\* and the working directory, also when the directory was reused and when no
\* post is missing.
C29_AlwaysPersisted ==
    [][ProcessedStep =>
          \E r \in pools :
             /\ r.id = pool_ids[i]
             /\ r.last_updated = run
             /\ r.post_count = (IF pc = "ppi_complete" THEN batch_pool ELSE pool).post_count
             /\ pc # "ppi_complete" =>
                   Resolve(ToAbsolutePath(r.folder_path)) = Resolve(working_dir)]_vars

\* ---- C30
\* C30 (force-redownload work set): with skip_existing false,
\* process_pool_ids enters download_pool without looking at the ledger,
\* download_pool plans the full post list of the pool in its declared order
\* without running verify_downloaded_files, and each step of download_post
\* that yields an outcome yields it for the next post of that list, whatever
\* rows the ledger holds.
C30_ForceWorkSet ==
    [][~skip_existing =>
          /\ (pc = "ppi_fetch_pool" /\ pc' \in {"ppi_complete", "dp_fetch_pool"})
                => pc' = "dp_fetch_pool"
          /\ SaveStep =>
                /\ posts_to_download' = pool.post_ids
                /\ pc' = "dp_fetch_post"
                /\ k' = 1
                /\ downloaded_posts' = downloaded_posts
                /\ missing_files' = <<>>
          /\ (ItemStep /\ pc' # "idle") =>
                /\ posts_to_download = pool.post_ids
                /\ success' \o failed' # success \o failed =>
                      \/ success' = Append(success, pool.post_ids[k])
                      \/ failed' = Append(failed, pool.post_ids[k])
                /\ k < Len(pool.post_ids) => (pc' = "dp_fetch_post" /\ k' = k + 1)]_vars

\* a forced run over pool 1 has returned with both posts downloaded in the
\* declared order although the ledger held a row for each as the run began
C30_Witness ==
    /\ pc = "ppi_return"
    /\ ~skip_existing
    /\ pool_ids = <<1>>
    /\ remote[1] = <<1, 2>>
    /\ Unrecorded(ledger0.posts, 1, remote[1]) = {}
    /\ success = <<1, 2>>

\* ---- C31
\* C31 (ordinal position): when download_post handles the planned post
\* posts_to_download[k] and writes its row, the position stored is the index
\* of the post in the full post list the pool document of this run gave (not
\* its index in the work set), the stored path is <position+1>.<extension>
\* in the working directory, and a file written in the step is that file.
C31_OrdinalPosition ==
    [][(ItemStep /\ downloaded_posts' # downloaded_posts) =>
          LET post_id == posts_to_download[k]
              rows == RowsOf(downloaded_posts', post_id, pool_ids[i])
          IN /\ Cardinality(rows) = 1
             /\ \A r \in rows :
                   /\ r.position \in 0..(Len(pool.post_ids) - 1)
                   /\ pool.post_ids[r.position + 1] = post_id
                   /\ \A m \in 1..r.position : pool.post_ids[m] # post_id
                   /\ ToAbsolutePath(r.file_path)
                         = Resolve(working_dir \o <<ToString(r.position + 1) \o ".jpg">>)
                   /\ files' \ files \subseteq {ToAbsolutePath(r.file_path)}]_vars

\* a run whose work set was the one post <<3>> of pool 2 has stored it at
\* position 1, its index in the full list <<1, 3>>, as file 2.jpg
C31_Witness ==
    /\ pc = "ppi_return"
    /\ pool_ids = <<2>>
    /\ remote[2] = <<1, 3>>
    /\ success = <<3>>
    /\ failed = <<>>
    /\ \E r \in downloaded_posts :
          /\ r.post_id = 3 /\ r.pool_id = 2 /\ r.position = 1
          /\ r.downloaded_at = run
          /\ ToAbsolutePath(r.file_path) \in files
          /\ r.file_path[Len(r.file_path)] = "2.jpg"

\* ---- C32
\* the files of a directory that no row of the table refers to
Orphans(posts_tbl, directory, fs) ==
    {f \in fs : /\ StartsWith(f, Resolve(directory))
                /\ ~IsShortcut(f)
                /\ \A r \in posts_tbl : ToAbsolutePath(r.file_path) # f}

\* C32 (verifier frame): verify_downloaded_files(c) deletes only rows of pool
\* c whose file is absent: the rows of c whose file exists and the rows of
\* the other pools stay as they are, no pools row is touched (in the step
\* only save_pool writes the row of c), and files of the directory that no
\* row refers to change nothing in the ledger and are not in the list
\* returned.
C32_VerifierFrame ==
    [][VerifyStep =>
          /\ downloaded_posts' \subseteq downloaded_posts
          /\ \A r \in downloaded_posts :
                (r.pool_id # pool_ids[i] \/ ToAbsolutePath(r.file_path) \in files')
                   => r \in downloaded_posts'
          /\ {r \in pools' : r.id # pool_ids[i]} = {r \in pools : r.id # pool_ids[i]}
          /\ \A r \in pools' : r.id = pool_ids[i] => r.last_updated = run
          /\ \A p \in Range(missing_files') :
                \E r \in downloaded_posts :
                   /\ r.post_id = p /\ r.pool_id = pool_ids[i]
                   /\ ToAbsolutePath(r.file_path) \notin files']_vars

\* verify_downloaded_files has run over a directory that holds a file no row
\* refers to and a file a row of the pool refers to: the ledger rows are
\* those of the start of the run and nothing is reported
C32_Witness ==
    /\ pc = "dp_fetch_post"
    /\ k = 1
    /\ skip_existing
    /\ Orphans(downloaded_posts, working_dir, files) # {}
    /\ \E r \in downloaded_posts :
          r.pool_id = pool_ids[i] /\ ToAbsolutePath(r.file_path) \in files
    /\ downloaded_posts = ledger0.posts
    /\ missing_files = <<>>

\* ---- C33
\* C33 (verifier result): the list verify_downloaded_files(c) returns holds
\* exactly the post ids of the rows it deleted, each once, and every row of
\* pool c left in the table has a stored path that resolves to a file on
\* disk.
C33_VerifierResult ==
    [][VerifyStep =>
          LET deleted == downloaded_posts \ downloaded_posts'
          IN /\ Range(missing_files') = {r.post_id : r \in deleted}
             /\ Len(missing_files') = Cardinality(deleted)
             /\ \A r \in downloaded_posts' :
                   r.pool_id = pool_ids[i] => ToAbsolutePath(r.file_path) \in files']_vars

\* verify_downloaded_files(2) has deleted the one row of pool 2, whose file
\* was never written, and returned its id; the rows of pool 1 are in place
C33_Witness ==
    /\ pc = "dp_fetch_post"
    /\ k = 1
    /\ skip_existing
    /\ pool_ids[i] = 2
    /\ Len(missing_files) = 1
    /\ ledger0.posts \ downloaded_posts
          = {r \in ledger0.posts : r.pool_id = 2 /\ r.post_id = missing_files[1]}
    /\ Cardinality(ledger0.posts \ downloaded_posts) = 1
    /\ \E r \in downloaded_posts : r.pool_id = 1

\* ---- C34
\* a step of process_pool_ids that stays inside the call
BatchStep ==
    /\ pc \in {"ppi_fetch_pool", "ppi_complete", "dp_fetch_pool", "dp_first_post",
               "dp_complete", "dp_fetch_post"}
    /\ pc' \in {"ppi_fetch_pool", "ppi_complete", "dp_fetch_pool", "dp_first_post",
                "dp_complete", "dp_fetch_post", "ppi_return"}
    /\ env' = env

\* C34 (sequential collections): inside process_pool_ids the loop moves from
\* the pool at index i to the next one only, and only once every planned post
\* of pool i has its outcome and the failed list of pool i is filed; until
\* then every directory created, every file written and every ledger row
\* written belongs to pool i.
C34_SequentialCollections ==
    [][BatchStep =>
          /\ pool_ids' = pool_ids
          /\ i' \in {i, i + 1}
          /\ i' = i + 1 =>
                /\ pc' = "ppi_fetch_pool"
                /\ pc = "dp_fetch_post" =>
                      /\ k = Len(posts_to_download)
                      /\ Len(success') + Len(failed') = Len(posts_to_download)
                /\ failed' # <<>> =>
                      /\ pool_ids[i] \in DOMAIN all_failed'
                      /\ all_failed'[pool_ids[i]] = failed'
          /\ \A r \in downloaded_posts' \ downloaded_posts : r.pool_id = pool_ids[i]
          /\ \A r \in pools' \ pools : r.id = pool_ids[i]
          /\ \A d \in dirs' \ dirs :
                \E r \in pools' : r.id = pool_ids[i] /\ Resolve(ToAbsolutePath(r.folder_path)) = d
          /\ \A f \in files' \ files :
                \E r \in pools' :
                   /\ r.id = pool_ids[i]
                   /\ StartsWith(f, Resolve(ToAbsolutePath(r.folder_path)))]_vars

\* the loop is about to fetch the second pool: both posts of the first have
\* their outcome, the failed one is filed, and nothing exists yet for the
\* second pool
C34_Witness ==
    /\ pc = "ppi_fetch_pool"
    /\ pool_ids = <<1, 2>>
    /\ i = 2
    /\ Len(success) = 1
    /\ Len(failed) = 1
    /\ 1 \in DOMAIN all_failed
    /\ \A r \in pools : r.id # 2
    /\ \A r \in downloaded_posts : r.pool_id # 2

\* ---- C35
\* C35 (one file per row): no two rows of downloaded_posts of the same pool
\* refer to the same stored file path, whatever runs came before and however
\* the post list of the pool changed upstream between them.
C35_DistinctPaths ==
    \A r1, r2 \in downloaded_posts :
        (r1.pool_id = r2.pool_id /\ ToAbsolutePath(r1.file_path) = ToAbsolutePath(r2.file_path))
            => r1 = r2

\* ---- C36
\* C36 (referential integrity): every row of downloaded_posts carries the id
\* of a pool that has a pools row: save_pool for the pool comes before the
\* first mark_post_downloaded for it and no pools row is ever deleted.
C36_ReferentialIntegrity ==
    /\ [](\A r \in downloaded_posts : \E p \in pools : p.id = r.pool_id)
    /\ [][\A p \in pools : \E q \in pools' : q.id = p.id]_vars

\* a second run has replaced the pools row of a pool whose rows of the first
\* run are still in place, beside the rows of another pool
C36_Witness ==
    /\ pc = "ppi_return"
    /\ run = 2
    /\ \E r \in downloaded_posts :
          /\ r.downloaded_at = 1
          /\ \E p \in pools : p.id = r.pool_id /\ p.last_updated = 2
    /\ \E r1, r2 \in downloaded_posts : r1.pool_id # r2.pool_id

\* ---- C37
\* process_pool_ids is running
Running ==
    pc \in {"ppi_fetch_pool", "ppi_complete", "dp_fetch_pool", "dp_first_post",
            "dp_complete", "dp_fetch_post"}

\* how many times x occurs in s
Count(s, x) == Cardinality({n \in 1..Len(s) : s[n] = x})

====
